---- MODULE Spec2Model ----
(***************************************************************************)
(* A model of tiledb::sm::Query (src/tiledb/sm/query/query.cc): the status *)
(* state machine, its delegation to one Reader or one Writer, and the      *)
(* completion callback.                                                    *)
(*                                                                         *)
(* Query::process() is modelled statement by statement (program counter    *)
(* pc), because it calls out of the Query twice (the delegate's read/write *)
(* and the completion callback) and because cancel() may run while it is   *)
(* in flight.  Every other method runs only between process() calls        *)
(* (pc = "idle") and is one action.                                        *)
(*                                                                         *)
(* Spec     : the caller serializes all calls on the instance.             *)
(* SpecRace : cancel() may additionally run at any point of an in-flight   *)
(*            process(); status_ is a plain field without locking, so the  *)
(*            outcomes are the interleavings of the single accesses.       *)
(***************************************************************************)
EXTENDS Integers, Sequences, FiniteSets, TLC

\* ------------------------------------------------------------------ bounds
\* The array domain used for set_subarray(): NumDims dimensions, each with
\* the integer domain [DomLo, DomHi].
NumDims == 1
DomLo == 1
DomHi == 2

\* The inputs of check_subarray_bounds called on its own: ValDims dimensions
ValDims == 2
\* The inputs of check_var_attr_offsets called on its own: offsets arrays of
\* up to MaxOffsets entries, offsets and value sizes in 0..MaxOffsetValue
MaxOffsets == 3
MaxOffsetValue == 3
\* Resumed reads: up to RdMaxCells matching cells, buffers with room for up
\* to RdMaxCap cells
RdMaxCells == 3
RdMaxCap == 2
\* Reads to completion: up to MaxCells matching cells, buffers with room for
\* up to MaxCap cells
MaxCells == 8
MaxCap == 8
\* REST transfers: response bodies delivered in up to MaxChunks chunks of up
\* to MaxChunkLen bytes; an uninitialized size_t reads as 0..MaxGarbage
MaxChunks == 2
MaxChunkLen == 2
MaxGarbage == 1
\* HDFS files: reads and writes of up to MaxLength bytes, files of up to
\* MaxFileLen bytes; IntMax stands in for INT_MAX and MaxWriteBytes for
\* constants::max_write_bytes, scaled down so that a call needs several
\* requests; up to MaxInstances HDFS objects alive at a time
MaxLength == 3
MaxFileLen == 4
IntMax == 2
MaxWriteBytes == 2
MaxInstances == 2
\* Reads and writes of up to LibMaxLength bytes where the life of the library
\* is followed
LibMaxLength == 1

\* ------------------------------------------------------- program constants
\* sizeof(uint64_t)
SizeofUint64 == 8
\* sizeof(int)
SizeofInt == 4
\* sizeof(char*)
SizeofCharPtr == 8

\* ------------------------------------------------------------------ values
QueryTypes == {"READ", "WRITE"}
QueryStatuses == {"UNINITIALIZED", "INPROGRESS", "INCOMPLETE", "COMPLETED", "FAILED"}

Ok == "Ok"
\* Status::QueryError values created by the Query itself
ErrNotInitialized == "QueryError: Cannot process query; Query is not initialized"
ErrSchemaNotSet == "QueryError: Cannot check subarray; Array schema not set"
ErrOutOfBounds == "QueryError: Subarray out of bounds"
ErrLowerLargerThanUpper == "QueryError: Subarray lower bound is larger than upper bound"
ErrNullOffsets == "QueryError: Cannot use null offset buffers."
ErrInvalidOffset(offset, size) ==
  "QueryError: Invalid offsets; offset " \o ToString(offset) \o
  " specified for buffer of size " \o ToString(size)
ErrNotAscending ==
  "QueryError: Invalid offsets; offsets must be given in strictly ascending order."
\* Errors a Reader/Writer call can return (two, so that "the same error"
\* is distinguishable from "some error")
DelegateErrors == {"ReaderWriterError: A", "ReaderWriterError: B"}
DelegateResults == {Ok} \cup DelegateErrors

\* Domain types check_subarray_bounds dispatches to a typed check (lines
\* 281-309).  The string types and ANY (lines 310-320) are not domain types
\* of any array here.
IntegerTypes == {"INT8", "UINT8", "INT16", "UINT16", "INT32", "UINT32", "INT64", "UINT64"}
FloatTypes == {"FLOAT32", "FLOAT64"}

\* Scalars are integers; for float and double one more value, NaN, stands
\* outside the number line (it is only ever tested for identity).
NaN == DomHi + 2
SubarrayValues == (DomLo - 1)..(DomHi + 1)
ScalarsOf(dtype) == IF dtype \in FloatTypes THEN SubarrayValues \cup {NaN} ELSE SubarrayValues

\* A subarray is null or 2 * dim_num scalars <<lo1, hi1, lo2, hi2, ...>>
NullSubarray == <<>>
SubarraysOf(dtype, dim_num) ==
  {NullSubarray} \cup [1..(2 * dim_num) -> ScalarsOf(dtype)]

\* No validation function is being called on its own
NoInput == [fn |-> "none"]

\* The offsets arrays within the bounds
OffsetArrays == UNION {[1..n -> 0..MaxOffsetValue] : n \in 0..MaxOffsets}
\* The matching cells: not modelled, or num cells 1..num in global order
UnknownCells == [known |-> FALSE]
Cells(num) == [known |-> TRUE, num |-> num]
\* The bytes one cell takes in the buffer of an attribute: a1 holds one int
\* per cell, the coordinates buffer two uint64_t
CellSize(attribute) ==
  IF attribute = "__coords" THEN 2 * SizeofUint64 ELSE SizeofInt
\* A Reader whose init has just run
ReaderFresh(attributes) ==
  [pos |-> 0, out |-> <<>>, sizes |-> [a \in attributes |-> 0], ok |-> TRUE]
\* The cell layouts a query can ask for
Layouts == {"ROW_MAJOR", "COL_MAJOR", "GLOBAL_ORDER", "UNORDERED"}
\* Attribute a1 has fixed-size cells, attribute a2 variable-sized cells
VarAttributes == {"a2"}
\* writer_.write() found no variable-sized attribute registered
NoContent == [fn |-> "none"]

\* A pointer is null or holds its pointee
NullPtr == <<>>
Ptr(v) == <<v>>
Deref(p) == p[1]

\* The libhdfs functions, in the order load_and_bind binds them
HdfsFunctions ==
  <<"hdfsBuilderConnect", "hdfsNewBuilder", "hdfsBuilderSetNameNode",
    "hdfsConfGetStr", "hdfsBuilderSetKerbTicketCachePath", "hdfsCloseFile",
    "hdfsPread", "hdfsRead", "hdfsWrite", "hdfsHFlush", "hdfsHSync",
    "hdfsOpenFile", "hdfsExists", "hdfsListDirectory", "hdfsFreeFileInfo",
    "hdfsDelete", "hdfsCreateDirectory", "hdfsGetPathInfo", "hdfsRename",
    "hdfsSeek">>
ErrHadoopHome == "Error: Environment variable HADOOP_HOME not set"
ErrDlopen == "Error: dlopen"
ErrDlsym == "Error: dlsym"
ErrConnect == "Error: strerror(errno)"
ErrIO == "IOError"
\* The handles dlopen gives for the two library paths load_and_bind tries
HadoopHomeLib == "HADOOP_HOME/lib/native/libhdfs.so"
SearchPathLib == "libhdfs.so"
\* The LibHDFS object before load_and_bind: a default Status, a null handle
\* and empty std::functions (`bound` counts the functions bound, which are
\* the first `bound` of HdfsFunctions; `origin` holds the handles they were
\* bound from, `loads` counts the runs of load_and_bind)
LibFresh ==
  [loaded |-> FALSE, loads |-> 0, status_ |-> Ok, handle_ |-> NullPtr, bound |-> 0,
   origin |-> {}]
\* The loader before any dlopen: the handles open, and the kinds of dlclose
\* calls made on something that is not an open handle
DlFresh == [open |-> {}, invalid |-> {}]
\* No request made to hdfsRead / hdfsWrite yet in this call
NoRequest == [made |-> FALSE]
\* A buffer byte the call has not written
Unwritten == 2
\* No HDFS method was called yet
HdfsIdle ==
  [fn |-> "none", pc |-> "idle", ret |-> "none", offset |-> 0, length |-> 0,
   buffer |-> <<>>, bytes_to_read |-> 0, buffptr |-> 0, nrRemaining |-> 0,
   flags |-> "none", req |-> NoRequest, called |-> {}]
\* The file behind the uri: its bytes, whether reading it can fail, the read
\* position of the open handle, the handles the call in flight has open on
\* it, and the bytes hdfsWrite appended in this call
HdfsFile(content, faulty) ==
  [content |-> content, faulty |-> faulty, pos |-> 0, handles |-> 0, appended |-> <<>>]

VARIABLES
  type_,            \* Query::type_
  status_,          \* Query::status_
  callback_,        \* Query::callback_ is non-null
  schema_set,       \* the delegate's array schema is non-null
  subarray_,        \* the subarray the delegate holds
  reader_incomplete,\* what reader_.incomplete() returns
  pc,               \* position of the in-flight process() call, or "idle"
  st,               \* local `st` of process(): the delegate's result
  op,               \* the last method called (process: the call in flight)
  pre,              \* status_ when that call was entered
  ret,              \* what that call returned ("none" while in flight)
  calls,            \* the Reader/Writer/callback invocations made by that call
  cancel_mid,       \* cancel() ran inside the process() call named by op
  domain_type,      \* array_schema->domain()->type()
  attrs_,           \* the attributes of the array schema
  layout_,          \* the layout the delegate holds
  buffers_,         \* the attributes the delegate holds a buffer for
  reinit_due,       \* the subarray changed since the delegate's last init
  w_content,        \* the offsets buffers writer_.write() found in this call
  w_stored,         \* cell data reached storage in this call
  cells_,           \* the cells of the array that match the query
  caps_,            \* the size in bytes of each registered buffer
  reader_,          \* the Reader's position and what it delivered
  fn_in,            \* arguments of a validation function called on its own
  fn_out,           \* what it returned ("none" before the call)
  libhdfs_,         \* the LibHDFS singleton behind LibHDFS::load()
  dl_,              \* the dynamic loader: handles open, dlclose calls made
  instances_,       \* the number of HDFS objects alive
  hdfs_,            \* the HDFS method in flight (or the last one) and its locals
  hfile_            \* the file behind the uri, its read position, open handles

vars == <<type_, status_, callback_, schema_set, subarray_, reader_incomplete,
          pc, st, op, pre, ret, calls, cancel_mid, domain_type, attrs_, layout_,
          buffers_, reinit_due, w_content, w_stored, cells_, caps_, reader_,
          fn_in, fn_out, libhdfs_, dl_, instances_, hdfs_, hfile_>>

\* No HDFS object was created and no HDFS method called
HdfsUnused ==
  /\ libhdfs_ = LibFresh
  /\ dl_ = DlFresh
  /\ instances_ = 0
  /\ hdfs_ = HdfsIdle
  /\ hfile_ = HdfsFile(<<>>, FALSE)

\* An invocation leaving the Query: the callee, status_ at that moment, and
\* whether a cancel() had already run inside the call making it
Call(fn) == [fn |-> fn, status |-> status_, cancelled |-> cancel_mid]
Delegate == IF type_ = "WRITE" THEN "writer" ELSE "reader"

\* ------------------------------------------------------------- constructor
QueryInit(domain_types, attributes, contents) ==
  /\ type_ \in QueryTypes
  /\ domain_type \in domain_types
  /\ attrs_ = attributes
  /\ cells_ \in contents
  /\ caps_ = [a \in attributes |-> 0]
  /\ reader_ = ReaderFresh(attributes)
  /\ layout_ = "ROW_MAJOR"
  /\ buffers_ = {}
  /\ reinit_due = FALSE
  /\ w_content = NoContent
  /\ w_stored = FALSE
  /\ fn_in = NoInput
  /\ fn_out = "none"
  /\ status_ = "UNINITIALIZED"
  /\ callback_ = FALSE
  /\ schema_set \in BOOLEAN
  /\ subarray_ = NullSubarray
  /\ reader_incomplete \in BOOLEAN  \* a Reader that never read: not decided here
  /\ pc = "idle"
  /\ st = Ok
  /\ op = "Query"
  /\ pre = "UNINITIALIZED"
  /\ ret = Ok
  /\ calls = <<>>
  /\ cancel_mid = FALSE
  /\ HdfsUnused

\* A Query on an array with an integer domain
Init == QueryInit({"INT32"}, {"a1"}, {UnknownCells})

\* A Query on an array with a floating-point domain
InitFloat == QueryInit({"FLOAT64"}, {"a1"}, {UnknownCells})

\* Entering a method that runs as one step
Enter(name) ==
  /\ pc = "idle"
  /\ op' = name
  /\ pre' = status_
  /\ cancel_mid' = FALSE
  /\ st' = Ok
  /\ w_content' = NoContent
  /\ w_stored' = FALSE
  /\ UNCHANGED <<pc, type_, domain_type, attrs_, fn_in, fn_out>>

\* ------------------------------------------------------------ Query::init
\* Variant: INPROGRESS is set only on the first initialization
Query_init_first_only ==
  /\ Enter("init")
  /\ UNCHANGED <<callback_, schema_set, subarray_, reader_incomplete,
                 layout_, buffers_, cells_, caps_, libhdfs_, dl_, instances_,
                 hdfs_, hfile_>>
  /\ IF status_ = "UNINITIALIZED"
       THEN \E r \in DelegateResults :
              /\ calls' = <<Call(Delegate \o ".init")>>
              /\ IF r # Ok
                   THEN ret' = r /\ UNCHANGED <<status_, reinit_due, reader_>>
                   ELSE ret' = Ok /\ status_' = "INPROGRESS" /\ reinit_due' = FALSE
                        /\ reader_' = IF type_ = "READ" THEN ReaderFresh(attrs_) ELSE reader_
       ELSE /\ calls' = <<>>
            /\ UNCHANGED <<reinit_due, reader_>>
            /\ ret' = Ok
            /\ UNCHANGED status_

\* Variant: INPROGRESS is set even when the delegate's init fails
Query_init_always_inprogress ==
  /\ Enter("init")
  /\ UNCHANGED <<callback_, schema_set, subarray_, reader_incomplete,
                 layout_, buffers_, cells_, caps_, libhdfs_, dl_, instances_,
                 hdfs_, hfile_>>
  /\ IF status_ = "UNINITIALIZED"
       THEN \E r \in DelegateResults :
              /\ calls' = <<Call(Delegate \o ".init")>>
              /\ IF r # Ok
                   THEN ret' = r /\ status_' = "INPROGRESS" /\ UNCHANGED <<reinit_due, reader_>>
                   ELSE ret' = Ok /\ status_' = "INPROGRESS" /\ reinit_due' = FALSE
                        /\ reader_' = IF type_ = "READ" THEN ReaderFresh(attrs_) ELSE reader_
       ELSE /\ calls' = <<>>
            /\ UNCHANGED <<reinit_due, reader_>>
            /\ ret' = Ok
            /\ status_' = "INPROGRESS"

\* Variant: a failed query is initialized again
Query_init_after_failure ==
  /\ Enter("init")
  /\ UNCHANGED <<callback_, schema_set, subarray_, reader_incomplete,
                 layout_, buffers_, cells_, caps_, libhdfs_, dl_, instances_,
                 hdfs_, hfile_>>
  /\ IF status_ \in {"UNINITIALIZED", "FAILED"}
       THEN \E r \in DelegateResults :
              /\ calls' = <<Call(Delegate \o ".init")>>
              /\ IF r # Ok
                   THEN ret' = r /\ UNCHANGED <<status_, reinit_due, reader_>>
                   ELSE ret' = Ok /\ status_' = "INPROGRESS" /\ reinit_due' = FALSE
                        /\ reader_' = IF type_ = "READ" THEN ReaderFresh(attrs_) ELSE reader_
       ELSE /\ calls' = <<>>
            /\ UNCHANGED <<reinit_due, reader_>>
            /\ ret' = Ok
            /\ status_' = "INPROGRESS"

\* lines 100-113
Query_init ==
  /\ Enter("init")
  /\ UNCHANGED <<callback_, schema_set, subarray_, reader_incomplete,
                 layout_, buffers_, cells_, caps_, libhdfs_, dl_, instances_,
                 hdfs_, hfile_>>
  /\ IF status_ = "UNINITIALIZED"
       THEN \E r \in DelegateResults :
              /\ calls' = <<Call(Delegate \o ".init")>>
              /\ IF r # Ok
                   THEN ret' = r /\ UNCHANGED <<status_, reinit_due, reader_>>
                   ELSE ret' = Ok /\ status_' = "INPROGRESS" /\ reinit_due' = FALSE
                        /\ reader_' = IF type_ = "READ" THEN ReaderFresh(attrs_) ELSE reader_
       ELSE /\ calls' = <<>>
            /\ UNCHANGED <<reinit_due, reader_>>
            /\ ret' = Ok
            /\ status_' = "INPROGRESS"

\* ---------------------------------------------------------- Query::cancel
\* Variant: only a query that is running or resumable is cancelled
Query_cancel_active_only ==
  /\ status_' = IF status_ \in {"INPROGRESS", "INCOMPLETE"} THEN "FAILED" ELSE status_
  /\ UNCHANGED <<type_, callback_, schema_set, subarray_, reader_incomplete,
                 pc, st, domain_type, attrs_, layout_, buffers_, reinit_due,
                 w_content, w_stored, cells_, caps_, reader_, fn_in, fn_out,
                 libhdfs_, dl_, instances_, hdfs_, hfile_>>
  /\ IF pc = "idle"
       THEN /\ op' = "cancel"
            /\ pre' = status_
            /\ ret' = Ok
            /\ calls' = <<>>
            /\ cancel_mid' = FALSE
       ELSE /\ cancel_mid' = TRUE
            /\ UNCHANGED <<op, pre, ret, calls>>

\* lines 127-130
Query_cancel ==
  /\ status_' = "FAILED"
  /\ UNCHANGED <<type_, callback_, schema_set, subarray_, reader_incomplete,
                 pc, st, domain_type, attrs_, layout_, buffers_, reinit_due,
                 w_content, w_stored, cells_, caps_, reader_, fn_in, fn_out,
                 libhdfs_, dl_, instances_, hdfs_, hfile_>>
  /\ IF pc = "idle"
       THEN /\ op' = "cancel"
            /\ pre' = status_
            /\ ret' = Ok
            /\ calls' = <<>>
            /\ cancel_mid' = FALSE
       ELSE /\ cancel_mid' = TRUE
            /\ UNCHANGED <<op, pre, ret, calls>>

\* ------------------------------------------ Query::check_var_attr_offsets

\* Variant: an offset equal to its predecessor is let through
RECURSIVE check_var_attr_offsets_from_nonstrict(_, _, _, _, _)
check_var_attr_offsets_from_nonstrict(off, i, num_offsets, prev_offset, val_size) ==
  IF i >= num_offsets THEN Ok
  ELSE IF off[i + 1] < prev_offset THEN ErrNotAscending
  ELSE IF off[i + 1] >= val_size THEN ErrInvalidOffset(off[i + 1], val_size)
  ELSE check_var_attr_offsets_from_nonstrict(off, i + 1, num_offsets, off[i + 1], val_size)

\* lines 150-162: the loop from index i on (buffer_off[i] is off[i + 1])
RECURSIVE check_var_attr_offsets_from(_, _, _, _, _)
check_var_attr_offsets_from(off, i, num_offsets, prev_offset, val_size) ==
  IF i >= num_offsets THEN Ok
  ELSE IF off[i + 1] <= prev_offset THEN ErrNotAscending
  ELSE IF off[i + 1] >= val_size THEN ErrInvalidOffset(off[i + 1], val_size)
  ELSE check_var_attr_offsets_from(off, i + 1, num_offsets, off[i + 1], val_size)

\* Variant: an empty offsets buffer is refused
check_var_attr_offsets_nonempty(buffer_off, buffer_off_size, buffer_val_size) ==
  IF buffer_off = NullPtr \/ buffer_off_size = NullPtr \/ buffer_val_size = NullPtr
    THEN ErrNullOffsets
  ELSE
    LET off == Deref(buffer_off)
        num_offsets == Deref(buffer_off_size) \div SizeofUint64
        val_size == Deref(buffer_val_size)
    IN IF num_offsets = 0 THEN ErrNullOffsets
       ELSE IF off[1] >= val_size THEN ErrInvalidOffset(off[1], val_size)
       ELSE check_var_attr_offsets_from(off, 1, num_offsets, off[1], val_size)

\* Variant: only the first offset is validated
check_var_attr_offsets_first_only(buffer_off, buffer_off_size, buffer_val_size) ==
  IF buffer_off = NullPtr \/ buffer_off_size = NullPtr \/ buffer_val_size = NullPtr
    THEN ErrNullOffsets
  ELSE
    LET off == Deref(buffer_off)
        num_offsets == Deref(buffer_off_size) \div SizeofUint64
        val_size == Deref(buffer_val_size)
    IN IF num_offsets = 0 THEN Ok
       ELSE IF off[1] >= val_size THEN ErrInvalidOffset(off[1], val_size)
       ELSE Ok

\* lines 132-165
check_var_attr_offsets(buffer_off, buffer_off_size, buffer_val_size) ==
  IF buffer_off = NullPtr \/ buffer_off_size = NullPtr \/ buffer_val_size = NullPtr
    THEN ErrNullOffsets
  ELSE
    LET off == Deref(buffer_off)
        num_offsets == Deref(buffer_off_size) \div SizeofUint64
        val_size == Deref(buffer_val_size)
    IN IF num_offsets = 0 THEN Ok
       ELSE IF off[1] >= val_size THEN ErrInvalidOffset(off[1], val_size)
       ELSE check_var_attr_offsets_from(off, 1, num_offsets, off[1], val_size)

\* check_var_attr_offsets called on its own, on the arguments fn_in
Apply_check_var_attr_offsets ==
  /\ fn_in.fn = "check_var_attr_offsets"
  /\ fn_out = "none"
  /\ fn_out' = check_var_attr_offsets(fn_in.buffer_off, fn_in.buffer_off_size,
                                      fn_in.buffer_val_size)
  /\ UNCHANGED <<type_, status_, callback_, schema_set, subarray_,
                 reader_incomplete, pc, st, op, pre, ret, calls, cancel_mid,
                 domain_type, attrs_, layout_, buffers_, reinit_due,
                 w_content, w_stored, cells_, caps_, reader_, fn_in,
                 libhdfs_, dl_, instances_, hdfs_, hfile_>>

\* ----------------------------------------------------------- Writer::write
\* What a caller has behind the buffers it registered for the
\* variable-sized attribute when write() runs: an offsets array, its size in
\* bytes and the size of the values buffer
WriteContents ==
  {[fn |-> "write", buffer_off |-> Ptr(a),
    buffer_off_size |-> Ptr(SizeofUint64 * Len(a)), buffer_val_size |-> Ptr(v)] :
      a \in OffsetArrays, v \in 0..MaxOffsetValue}

\* The outcomes of write(): the offsets of a variable-sized attribute are
\* validated before any cell data is stored; a write that fails later may
\* or may not have stored data
Writer_write(content) ==
  LET checked == IF content = NoContent THEN Ok
                 ELSE check_var_attr_offsets(content.buffer_off, content.buffer_off_size,
                                             content.buffer_val_size)
  IN IF checked # Ok
       THEN {[st |-> checked, stored |-> FALSE]}
       ELSE {[st |-> Ok, stored |-> TRUE]}
              \cup {[st |-> e, stored |-> b] : e \in DelegateErrors, b \in BOOLEAN}

\* ------------------------------------------------------------ Reader::read
\* The smallest element of a set of numbers
Min(S) == CHOOSE x \in S : \A y \in S : x <= y

\* The outcomes of read() on num matching cells with the buffers bufs of
\* sizes caps, from the state rd.  A read that succeeds delivers the next
\* cells, as many whole cells as every buffer has room for, and reports for
\* each buffer the bytes of those cells; it is incomplete while cells are
\* left.  A read that fails leaves no position to rely on (rd.ok is false
\* from then on) and may leave a cell half copied.
Reader_read(bufs, caps, num, rd) ==
  LET k == Min({caps[a] \div CellSize(a) : a \in bufs})
      whole(d) == [a \in DOMAIN caps |-> IF a \in bufs THEN d * CellSize(a) ELSE 0]
      partial == [a \in DOMAIN caps |-> IF a \in bufs /\ caps[a] >= 1 THEN 1 ELSE 0]
      lost(sizes) == [pos |-> 0, out |-> <<>>, sizes |-> sizes, ok |-> FALSE]
      bad == {[st |-> e, incomplete |-> inc, reader |-> lost(s)] :
                e \in DelegateErrors, inc \in BOOLEAN, s \in {whole(0), partial}}
      next == LET d == Min({k, num - rd.pos}) IN
                [st |-> Ok,
                 incomplete |-> rd.pos + d < num,
                 reader |-> [pos |-> rd.pos + d,
                             out |-> rd.out \o [i \in 1..d |-> rd.pos + i],
                             sizes |-> whole(d),
                             ok |-> TRUE]]
      some == {[st |-> Ok, incomplete |-> inc, reader |-> lost(whole(d))] :
                 inc \in BOOLEAN, d \in 0..Min({k, num})}
  IN IF bufs = {} THEN bad
     ELSE IF rd.ok THEN {next} \cup bad
     ELSE some \cup bad

\* --------------------------------------------------------- Query::process
\* Variant: the entry check is missing
process_rejects_never(s) == FALSE

\* line 168: the only status process() refuses
process_rejects(s) == s = "UNINITIALIZED"

\* Variant: every successful read counts as complete
process_completed_always(t, incomplete) == TRUE

\* Variant: the Reader's answer is taken the wrong way round
process_completed_negated(t, incomplete) == IF t = "WRITE" THEN TRUE ELSE incomplete

\* Variant: a read never completes the query
process_completed_writes_only(t, incomplete) == t = "WRITE"

\* Variant: the query type is not looked at
process_completed_ignores_type(t, incomplete) == ~incomplete

\* line 187: bool completed = (type_ == WRITE) ? true : !reader_.incomplete()
process_completed(t, incomplete) == IF t = "WRITE" THEN TRUE ELSE ~incomplete

\* lines 168-170: the entry check
Query_process_168 ==
  /\ pc = "idle"
  /\ op' = "process"
  /\ pre' = status_
  /\ calls' = <<>>
  /\ cancel_mid' = FALSE
  /\ w_content' = NoContent
  /\ w_stored' = FALSE
  /\ IF process_rejects(status_)
       THEN pc' = "idle" /\ ret' = ErrNotInitialized
       ELSE pc' = "171" /\ ret' = "none"
  /\ UNCHANGED <<type_, status_, callback_, schema_set, subarray_,
                 reader_incomplete, st, domain_type, attrs_, layout_,
                 buffers_, reinit_due, cells_, caps_, reader_, fn_in, fn_out,
                 libhdfs_, dl_, instances_, hdfs_, hfile_>>

\* lines 171-174: status_ = INPROGRESS; Status st = Status::Ok()
Query_process_171 ==
  /\ pc = "171"
  /\ status_' = "INPROGRESS"
  /\ st' = Ok
  /\ pc' = "175"
  /\ UNCHANGED <<type_, callback_, schema_set, subarray_, reader_incomplete,
                 op, pre, ret, calls, cancel_mid, domain_type, attrs_,
                 layout_, buffers_, reinit_due, w_content, w_stored, cells_,
                 caps_, reader_, fn_in, fn_out, libhdfs_, dl_, instances_,
                 hdfs_, hfile_>>

\* lines 175-178: st = reader_.read() or st = writer_.write().  The result
\* and, for a read, what reader_.incomplete() answers afterwards are the
\* delegate's to decide.
Query_process_175 ==
  /\ pc = "175"
  /\ IF type_ = "READ"
       THEN /\ IF cells_.known
                 THEN \E out \in Reader_read(buffers_, caps_, cells_.num, reader_) :
                        /\ st' = out.st
                        /\ reader_incomplete' = out.incomplete
                        /\ reader_' = out.reader
                 ELSE /\ \E r \in DelegateResults, inc \in BOOLEAN :
                           /\ st' = r
                           /\ reader_incomplete' = inc
                      /\ UNCHANGED reader_
            /\ UNCHANGED <<w_content, w_stored>>
       ELSE /\ \E content \in (IF buffers_ \cap VarAttributes # {}
                                 THEN WriteContents ELSE {NoContent}) :
                 \E out \in Writer_write(content) :
                   /\ st' = out.st
                   /\ w_content' = content
                   /\ w_stored' = out.stored
            /\ UNCHANGED <<reader_incomplete, reader_>>
  /\ calls' = Append(calls, Call(IF type_ = "READ" THEN "reader.read" ELSE "writer.write"))
  /\ pc' = "181"
  /\ UNCHANGED <<type_, status_, callback_, schema_set, subarray_, op, pre,
                 ret, cancel_mid, domain_type, attrs_, layout_, buffers_,
                 reinit_due, cells_, caps_, fn_in, fn_out, libhdfs_, dl_,
                 instances_, hdfs_, hfile_>>

\* Variant: the error path returns st without recording FAILED
Query_process_181_keeps_status ==
  /\ pc = "181"
  /\ IF st # Ok
       THEN /\ ret' = st
            /\ pc' = "idle"
            /\ UNCHANGED status_
       ELSE /\ pc' = IF process_completed(type_, reader_incomplete)
                       THEN (IF callback_ THEN "192" ELSE "193")
                       ELSE "195"
            /\ UNCHANGED <<status_, ret>>
  /\ UNCHANGED <<type_, callback_, schema_set, subarray_, reader_incomplete,
                 st, op, pre, calls, cancel_mid, domain_type, attrs_,
                 layout_, buffers_, reinit_due, w_content, w_stored, cells_,
                 caps_, reader_, fn_in, fn_out, libhdfs_, dl_, instances_,
                 hdfs_, hfile_>>

\* Variant: a failed read or write is not noticed
Query_process_181_ignores_failure ==
  /\ pc = "181"
  /\ IF FALSE
       THEN /\ status_' = "FAILED"
            /\ ret' = st
            /\ pc' = "idle"
       ELSE /\ pc' = IF process_completed(type_, reader_incomplete)
                       THEN (IF callback_ THEN "192" ELSE "193")
                       ELSE "195"
            /\ UNCHANGED <<status_, ret>>
  /\ UNCHANGED <<type_, callback_, schema_set, subarray_, reader_incomplete,
                 st, op, pre, calls, cancel_mid, domain_type, attrs_,
                 layout_, buffers_, reinit_due, w_content, w_stored, cells_,
                 caps_, reader_, fn_in, fn_out, libhdfs_, dl_, instances_,
                 hdfs_, hfile_>>

\* lines 181-190: on error status_ = FAILED and return st; otherwise compute
\* `completed` and branch on it and on callback_ != nullptr
Query_process_181 ==
  /\ pc = "181"
  /\ IF st # Ok
       THEN /\ status_' = "FAILED"
            /\ ret' = st
            /\ pc' = "idle"
       ELSE /\ pc' = IF process_completed(type_, reader_incomplete)
                       THEN (IF callback_ THEN "192" ELSE "193")
                       ELSE "195"
            /\ UNCHANGED <<status_, ret>>
  /\ UNCHANGED <<type_, callback_, schema_set, subarray_, reader_incomplete,
                 st, op, pre, calls, cancel_mid, domain_type, attrs_,
                 layout_, buffers_, reinit_due, w_content, w_stored, cells_,
                 caps_, reader_, fn_in, fn_out, libhdfs_, dl_, instances_,
                 hdfs_, hfile_>>

\* line 192: callback_(callback_data_)
Query_process_192 ==
  /\ pc = "192"
  /\ calls' = Append(calls, Call("callback"))
  /\ pc' = "193"
  /\ UNCHANGED <<type_, status_, callback_, schema_set, subarray_,
                 reader_incomplete, st, op, pre, ret, cancel_mid,
                 domain_type, attrs_, layout_, buffers_, reinit_due,
                 w_content, w_stored, cells_, caps_, reader_, fn_in, fn_out,
                 libhdfs_, dl_, instances_, hdfs_, hfile_>>

\* line 193: status_ = COMPLETED
Query_process_193 ==
  /\ pc = "193"
  /\ status_' = "COMPLETED"
  /\ pc' = "198"
  /\ UNCHANGED <<type_, callback_, schema_set, subarray_, reader_incomplete,
                 st, op, pre, ret, calls, cancel_mid, domain_type, attrs_,
                 layout_, buffers_, reinit_due, w_content, w_stored, cells_,
                 caps_, reader_, fn_in, fn_out, libhdfs_, dl_, instances_,
                 hdfs_, hfile_>>

\* line 195: status_ = INCOMPLETE
Query_process_195 ==
  /\ pc = "195"
  /\ status_' = "INCOMPLETE"
  /\ pc' = "198"
  /\ UNCHANGED <<type_, callback_, schema_set, subarray_, reader_incomplete,
                 st, op, pre, ret, calls, cancel_mid, domain_type, attrs_,
                 layout_, buffers_, reinit_due, w_content, w_stored, cells_,
                 caps_, reader_, fn_in, fn_out, libhdfs_, dl_, instances_,
                 hdfs_, hfile_>>

\* line 198: return Status::Ok()
Query_process_198 ==
  /\ pc = "198"
  /\ ret' = Ok
  /\ pc' = "idle"
  /\ UNCHANGED <<type_, status_, callback_, schema_set, subarray_,
                 reader_incomplete, st, op, pre, calls, cancel_mid,
                 domain_type, attrs_, layout_, buffers_, reinit_due,
                 w_content, w_stored, cells_, caps_, reader_, fn_in, fn_out,
                 libhdfs_, dl_, instances_, hdfs_, hfile_>>

Query_process ==
  \/ Query_process_168
  \/ Query_process_171
  \/ Query_process_175
  \/ Query_process_181
  \/ Query_process_192
  \/ Query_process_193
  \/ Query_process_195
  \/ Query_process_198

\* -------------------------------------------------------- Query::finalize
\* Variant: the Writer is finalized whatever the status
Query_finalize_unguarded ==
  /\ Enter("finalize")
  /\ UNCHANGED <<callback_, schema_set, subarray_, reader_incomplete,
                 layout_, buffers_, reinit_due, cells_, caps_, reader_,
                 libhdfs_, dl_, instances_, hdfs_, hfile_>>
  /\ IF FALSE
       THEN /\ calls' = <<>>
            /\ ret' = Ok
            /\ UNCHANGED status_
       ELSE \E r \in DelegateResults :
              /\ calls' = <<Call("writer.finalize")>>
              /\ IF r # Ok
                   THEN ret' = r /\ UNCHANGED status_
                   ELSE ret' = Ok /\ status_' = "COMPLETED"

\* Variant: COMPLETED is set even when the Writer fails to finalize
Query_finalize_completes_on_error ==
  /\ Enter("finalize")
  /\ UNCHANGED <<callback_, schema_set, subarray_, reader_incomplete,
                 layout_, buffers_, reinit_due, cells_, caps_, reader_,
                 libhdfs_, dl_, instances_, hdfs_, hfile_>>
  /\ IF status_ = "UNINITIALIZED"
       THEN /\ calls' = <<>>
            /\ ret' = Ok
            /\ UNCHANGED status_
       ELSE \E r \in DelegateResults :
              /\ calls' = <<Call("writer.finalize")>>
              /\ IF r # Ok
                   THEN ret' = r /\ status_' = "COMPLETED"
                   ELSE ret' = Ok /\ status_' = "COMPLETED"

\* lines 72-79
Query_finalize ==
  /\ Enter("finalize")
  /\ UNCHANGED <<callback_, schema_set, subarray_, reader_incomplete,
                 layout_, buffers_, reinit_due, cells_, caps_, reader_,
                 libhdfs_, dl_, instances_, hdfs_, hfile_>>
  /\ IF status_ = "UNINITIALIZED"
       THEN /\ calls' = <<>>
            /\ ret' = Ok
            /\ UNCHANGED status_
       ELSE \E r \in DelegateResults :
              /\ calls' = <<Call("writer.finalize")>>
              /\ IF r # Ok
                   THEN ret' = r /\ UNCHANGED status_
                   ELSE ret' = Ok /\ status_' = "COMPLETED"

\* ------------------------------------------- Query::check_subarray_bounds
\* The built-in < and > of the scalar type T: on float and double every
\* comparison with NaN is false
lt(a, b) == a # NaN /\ b # NaN /\ a < b
gt(a, b) == a # NaN /\ b # NaN /\ a > b

\* Variant: the lower bound is not compared with the upper bound
RECURSIVE check_subarray_bounds_from_unordered(_, _, _)
check_subarray_bounds_from_unordered(subarray, i, dim_num) ==
  IF i > dim_num THEN Ok
  ELSE IF lt(subarray[2 * i - 1], DomLo) \/ gt(subarray[2 * i], DomHi)
    THEN ErrOutOfBounds
  ELSE check_subarray_bounds_from_unordered(subarray, i + 1, dim_num)

\* Variant: a lower bound above the domain counts as out of bounds
RECURSIVE check_subarray_bounds_from_both_sides(_, _, _)
check_subarray_bounds_from_both_sides(subarray, i, dim_num) ==
  IF i > dim_num THEN Ok
  ELSE IF lt(subarray[2 * i - 1], DomLo) \/ gt(subarray[2 * i - 1], DomHi)
          \/ gt(subarray[2 * i], DomHi)
    THEN ErrOutOfBounds
  ELSE IF gt(subarray[2 * i - 1], subarray[2 * i])
    THEN ErrLowerLargerThanUpper
  ELSE check_subarray_bounds_from_both_sides(subarray, i + 1, dim_num)

RECURSIVE check_subarray_bounds_from(_, _, _)
check_subarray_bounds_from(subarray, i, dim_num) ==
  IF i > dim_num THEN Ok
  ELSE IF lt(subarray[2 * i - 1], DomLo) \/ gt(subarray[2 * i], DomHi)
    THEN ErrOutOfBounds
  ELSE IF gt(subarray[2 * i - 1], subarray[2 * i])
    THEN ErrLowerLargerThanUpper
  ELSE check_subarray_bounds_from(subarray, i + 1, dim_num)

\* lines 271-324: null subarray, missing schema, then the typed check for
\* the domain's type (the same loop for each of the ten numeric types)
check_subarray_bounds(subarray, have_schema, dtype, dim_num) ==
  IF subarray = NullSubarray THEN Ok
  ELSE IF ~have_schema THEN ErrSchemaNotSet
  ELSE IF dtype \in IntegerTypes \cup FloatTypes
    THEN check_subarray_bounds_from(subarray, 1, dim_num)
  ELSE Ok  \* lines 310-323, with the assertion compiled out; never an input here

\* check_subarray_bounds called on its own, on the arguments fn_in
Apply_check_subarray_bounds ==
  /\ fn_in.fn = "check_subarray_bounds"
  /\ fn_out = "none"
  /\ fn_out' = check_subarray_bounds(fn_in.subarray, fn_in.have_schema,
                                     fn_in.dtype, fn_in.dim_num)
  /\ UNCHANGED <<type_, status_, callback_, schema_set, subarray_,
                 reader_incomplete, pc, st, op, pre, ret, calls, cancel_mid,
                 domain_type, attrs_, layout_, buffers_, reinit_due,
                 w_content, w_stored, cells_, caps_, reader_, fn_in,
                 libhdfs_, dl_, instances_, hdfs_, hfile_>>

\* ---------------------------------------------------- Query::set_subarray
\* Variant: the callback is dropped with the old subarray
Query_set_subarray_drops_callback ==
  /\ Enter("set_subarray")
  /\ callback_' = FALSE
  /\ UNCHANGED <<schema_set, reader_incomplete, layout_, buffers_, cells_,
                 caps_, reader_, libhdfs_, dl_, instances_, hdfs_, hfile_>>
  /\ \E subarray \in SubarraysOf(domain_type, NumDims) :
       LET checked == check_subarray_bounds(subarray, schema_set, domain_type, NumDims) IN
       IF checked # Ok
         THEN /\ ret' = checked
              /\ calls' = <<>>
              /\ UNCHANGED <<status_, subarray_, reinit_due>>
         ELSE \E r \in DelegateResults :
                /\ calls' = <<Call(Delegate \o ".set_subarray")>>
                /\ IF r # Ok
                     THEN ret' = r /\ UNCHANGED <<status_, subarray_, reinit_due>>
                     ELSE /\ ret' = Ok
                          /\ subarray_' = subarray
                          /\ reinit_due' = TRUE
                          /\ status_' = "UNINITIALIZED"

\* lines 246-257
Query_set_subarray ==
  /\ Enter("set_subarray")
  /\ UNCHANGED <<callback_, schema_set, reader_incomplete, layout_, buffers_,
                 cells_, caps_, reader_, libhdfs_, dl_, instances_, hdfs_,
                 hfile_>>
  /\ \E subarray \in SubarraysOf(domain_type, NumDims) :
       LET checked == check_subarray_bounds(subarray, schema_set, domain_type, NumDims) IN
       IF checked # Ok
         THEN /\ ret' = checked
              /\ calls' = <<>>
              /\ UNCHANGED <<status_, subarray_, reinit_due>>
         ELSE \E r \in DelegateResults :
                /\ calls' = <<Call(Delegate \o ".set_subarray")>>
                /\ IF r # Ok
                     THEN ret' = r /\ UNCHANGED <<status_, subarray_, reinit_due>>
                     ELSE /\ ret' = Ok
                          /\ subarray_' = subarray
                          /\ reinit_due' = TRUE
                          /\ status_' = "UNINITIALIZED"

\* ------------------------------------- Query::set_buffer (both overloads)
\* The buffer sizes a caller registers: room for some cells, with or
\* without a byte to spare; where the cells are not modelled, neither are
\* the sizes
BufferSizes(attribute) ==
  IF cells_.known
    THEN {k * CellSize(attribute) + d : k \in 0..RdMaxCap, d \in {0, 1}}
    ELSE {0}

Query_set_buffer ==
  /\ Enter("set_buffer")
  /\ UNCHANGED <<status_, callback_, schema_set, subarray_,
                 reader_incomplete, layout_, reinit_due, cells_, reader_,
                 libhdfs_, dl_, instances_, hdfs_, hfile_>>
  /\ calls' = <<Call(Delegate \o ".set_buffer")>>
  /\ \E attribute \in attrs_, r \in DelegateResults :
       \E size \in BufferSizes(attribute) :
         /\ ret' = r
         /\ buffers_' = IF r = Ok THEN buffers_ \cup {attribute} ELSE buffers_
         /\ caps_' = IF r = Ok THEN [caps_ EXCEPT ![attribute] = size] ELSE caps_

\* ------------------------------------------------------ Query::set_layout
Query_set_layout ==
  /\ Enter("set_layout")
  /\ UNCHANGED <<status_, callback_, schema_set, subarray_,
                 reader_incomplete, buffers_, reinit_due, cells_, caps_,
                 reader_, libhdfs_, dl_, instances_, hdfs_, hfile_>>
  /\ calls' = <<Call(Delegate \o ".set_layout")>>
  /\ \E layout \in Layouts, r \in DelegateResults :
       /\ ret' = r
       /\ layout_' = IF r = Ok THEN layout ELSE layout_

\* ---------------------------------------------------- Query::set_callback
Query_set_callback ==
  /\ Enter("set_callback")
  /\ UNCHANGED <<status_, schema_set, subarray_, reader_incomplete, layout_,
                 buffers_, reinit_due, cells_, caps_, reader_, libhdfs_, dl_,
                 instances_, hdfs_, hfile_>>
  /\ callback_' \in BOOLEAN
  /\ calls' = <<>>
  /\ ret' = Ok

\* ----------------------------------------------------- Query::has_results
\* A bool returned to the caller
Bool(b) == IF b THEN "true" ELSE "false"

\* Variant: the Reader is asked even before the query is initialized
Query_has_results_ignores_status ==
  /\ Enter("has_results")
  /\ UNCHANGED <<status_, callback_, schema_set, subarray_,
                 reader_incomplete, layout_, buffers_, reinit_due, cells_,
                 caps_, reader_, libhdfs_, dl_, instances_, hdfs_, hfile_>>
  /\ IF type_ = "WRITE"
       THEN /\ calls' = <<>>
            /\ ret' = Bool(FALSE)
       ELSE \E no_results \in BOOLEAN :
              /\ calls' = <<[fn |-> "reader.no_results", status |-> status_,
                             cancelled |-> cancel_mid, result |-> no_results]>>
              /\ ret' = Bool(~no_results)

\* lines 94-98; what reader_.no_results() answers is the Reader's to decide
Query_has_results ==
  /\ Enter("has_results")
  /\ UNCHANGED <<status_, callback_, schema_set, subarray_,
                 reader_incomplete, layout_, buffers_, reinit_due, cells_,
                 caps_, reader_, libhdfs_, dl_, instances_, hdfs_, hfile_>>
  /\ IF status_ = "UNINITIALIZED" \/ type_ = "WRITE"
       THEN /\ calls' = <<>>
            /\ ret' = Bool(FALSE)
       ELSE \E no_results \in BOOLEAN :
              /\ calls' = <<[fn |-> "reader.no_results", status |-> status_,
                             cancelled |-> cancel_mid, result |-> no_results]>>
              /\ ret' = Bool(~no_results)

\* ------------------------------------------------------------------ specs
\* Calls on one instance serialized by the caller
Next ==
  \/ Query_init
  \/ Query_process
  \/ Query_finalize
  \/ Query_set_subarray
  \/ Query_set_buffer
  \/ Query_set_layout
  \/ Query_set_callback
  \/ (pc = "idle" /\ Query_cancel)

Spec == Init /\ [][Next]_vars

\* cancel() racing with an in-flight process()
NextRace ==
  \/ Next
  \/ (pc # "idle" /\ Query_cancel)

SpecRace == Init /\ [][NextRace]_vars

\* The same calls on an array whose domain is floating-point
SpecFloat == InitFloat /\ [][Next]_vars

\* The calls that move the status, and the has_results() accessor
NextResults ==
  \/ Query_init
  \/ Query_process
  \/ Query_finalize
  \/ Query_set_callback
  \/ Query_has_results
  \/ (pc = "idle" /\ Query_cancel)

SpecResults == Init /\ [][NextResults]_vars

\* Reading an array whose matching cells are known, into the buffers of
\* attribute a1 and of the coordinates
ReadAttributes == {"a1", "__coords"}

InitRead ==
  /\ QueryInit({"INT32"}, ReadAttributes, {Cells(n) : n \in 0..RdMaxCells})
  /\ type_ = "READ"
  /\ schema_set = TRUE

NextRead ==
  \/ Query_set_buffer
  \/ Query_init
  \/ Query_set_callback
  \/ Query_process

SpecRead == InitRead /\ [][NextRead]_vars

\* A READ query whose caller has registered, for both attributes, buffers
\* with room for at least one cell, and goes on to call init() and
\* process() for as long as it can
InitReadLive ==
  /\ type_ = "READ"
  /\ status_ = "UNINITIALIZED"
  /\ callback_ = FALSE
  /\ schema_set = TRUE
  /\ subarray_ = NullSubarray
  /\ reader_incomplete \in BOOLEAN
  /\ pc = "idle"
  /\ st = Ok
  /\ op = "set_buffer"
  /\ pre = "UNINITIALIZED"
  /\ ret = Ok
  /\ calls = <<[fn |-> "reader.set_buffer", status |-> "UNINITIALIZED", cancelled |-> FALSE]>>
  /\ cancel_mid = FALSE
  /\ domain_type = "INT32"
  /\ attrs_ = ReadAttributes
  /\ layout_ = "ROW_MAJOR"
  /\ buffers_ = ReadAttributes
  /\ reinit_due = FALSE
  /\ w_content = NoContent
  /\ w_stored = FALSE
  /\ cells_ \in {Cells(n) : n \in 0..MaxCells}
  /\ caps_ \in {[a \in ReadAttributes |-> k[a] * CellSize(a)] :
                   k \in [ReadAttributes -> 1..MaxCap]}
  /\ reader_ = ReaderFresh(ReadAttributes)
  /\ fn_in = NoInput
  /\ fn_out = "none"
  /\ HdfsUnused

NextReadLive ==
  \/ Query_init
  \/ Query_set_callback
  \/ Query_process

SpecReadLive ==
  /\ InitReadLive
  /\ [][NextReadLive]_vars
  /\ WF_vars(Query_init)
  /\ WF_vars(Query_process)

\* Writing an array whose one attribute has variable-sized cells
InitWrite == QueryInit({"INT32"}, VarAttributes, {UnknownCells})

NextWrite ==
  \/ Query_init
  \/ Query_set_buffer
  \/ Query_set_callback
  \/ Query_process

SpecWrite == InitWrite /\ [][NextWrite]_vars

\* The Query of the validation functions called on their own: just built
QueryIdle ==
  /\ type_ = "WRITE"
  /\ status_ = "UNINITIALIZED"
  /\ callback_ = FALSE
  /\ schema_set = TRUE
  /\ subarray_ = NullSubarray
  /\ reader_incomplete = FALSE
  /\ pc = "idle"
  /\ st = Ok
  /\ op = "Query"
  /\ pre = "UNINITIALIZED"
  /\ ret = Ok
  /\ calls = <<>>
  /\ cancel_mid = FALSE
  /\ domain_type = "INT32"
  /\ attrs_ = {"a1"}
  /\ layout_ = "ROW_MAJOR"
  /\ buffers_ = {}
  /\ reinit_due = FALSE
  /\ w_content = NoContent
  /\ w_stored = FALSE
  /\ cells_ = UnknownCells
  /\ caps_ = [a \in attrs_ |-> 0]
  /\ reader_ = ReaderFresh(attrs_)

\* check_subarray_bounds on every subarray of ValDims dimensions, for an
\* integer and a floating-point domain, with and without a schema
ValidateInputs ==
  {[fn |-> "check_subarray_bounds", subarray |-> s, have_schema |-> h,
    dtype |-> t, dim_num |-> ValDims] :
      s \in SubarraysOf("INT32", ValDims), h \in BOOLEAN, t \in {"INT32"}}
  \cup
  {[fn |-> "check_subarray_bounds", subarray |-> s, have_schema |-> h,
    dtype |-> t, dim_num |-> ValDims] :
      s \in SubarraysOf("FLOAT64", ValDims), h \in BOOLEAN, t \in {"FLOAT64"}}

InitValidate ==
  /\ QueryIdle
  /\ fn_in \in ValidateInputs
  /\ fn_out = "none"
  /\ HdfsUnused

SpecValidate == InitValidate /\ [][Apply_check_subarray_bounds]_vars

\* check_var_attr_offsets on every offsets array within the bounds; the
\* size given for it covers at most the entries the array has, with or
\* without trailing bytes, and each of the three pointers may be null
OffsetsInputs ==
  {[fn |-> "check_var_attr_offsets", buffer_off |-> o, buffer_off_size |-> os,
    buffer_val_size |-> vs] :
      o \in {NullPtr} \cup {Ptr(a) : a \in OffsetArrays},
      os \in {NullPtr} \cup {Ptr(b) : b \in 0..(SizeofUint64 * MaxOffsets + SizeofUint64 - 1)},
      vs \in {NullPtr} \cup {Ptr(v) : v \in 0..MaxOffsetValue}}

\* The caller's contract: the offsets array has the entries its size claims
OffsetsInputOk(in) ==
  (in.buffer_off # NullPtr /\ in.buffer_off_size # NullPtr)
    => Deref(in.buffer_off_size) \div SizeofUint64 <= Len(Deref(in.buffer_off))

InitOffsets ==
  /\ QueryIdle
  /\ fn_in \in {in \in OffsetsInputs : OffsetsInputOk(in)}
  /\ fn_out = "none"
  /\ HdfsUnused

SpecOffsets == InitOffsets /\ [][Apply_check_var_attr_offsets]_vars

\* ------------------------------------------------------------ REST client
\* char values: the terminator 0 and one other byte
Bytes == {0, 1}
RECURSIVE SeqsUpTo(_, _)
SeqsUpTo(S, n) ==
  IF n = 0 THEN {<<>>}
  ELSE LET shorter == SeqsUpTo(S, n - 1)
       IN shorter \cup {Append(q, x) : q \in {r \in shorter : Len(r) = n - 1}, x \in S}
\* What libcurl hands to the write callback: non-empty chunks
Chunks == SeqsUpTo(Bytes, MaxChunkLen) \ {<<>>}
\* The result codes curl_easy_perform gives for the transfer itself
TransferCodes == {"CURLE_OK", "CURLE_COULDNT_CONNECT", "CURLE_OPERATION_TIMEDOUT"}
\* HTTP response codes left by the transfer (0: no response received)
HttpCodes == {0, 200, 399, 400, 500}
ErrRest == "Error"
\* The process does not return: a null pointer was read as a C string, or
\* written through
Crashed == "crashed"
RestPending == [status |-> "none"]
\* *jsonReturned: not assigned by the call, or assigned the pointer p
JsonUnset == [set |-> FALSE]
JsonSet(p) == [set |-> TRUE, ptr |-> p]

RECURSIVE Zeros(_)
Zeros(n) == IF n = 0 THEN <<>> ELSE <<0>> \o Zeros(n - 1)
RECURSIVE Flatten(_)
Flatten(chunks) == IF chunks = <<>> THEN <<>> ELSE Head(chunks) \o Flatten(Tail(chunks))
\* The characters of a C string: the bytes before the first 0
RECURSIVE CString(_)
CString(bytes) ==
  IF bytes = <<>> \/ Head(bytes) = 0 THEN <<>> ELSE <<Head(bytes)>> \o CString(Tail(bytes))

\* Variant: the terminator is counted into the size
WriteMemoryCallback_counts_terminator(mem, contents, alloc_ok) ==
  LET realsize == Len(contents) IN
  IF ~alloc_ok
    THEN [mem |-> [memory |-> NullPtr, size |-> mem.size], ret |-> 0]
    ELSE [mem |-> [memory |-> Ptr(SubSeq(Deref(mem.memory), 1, mem.size) \o contents \o <<0>>),
                   size |-> mem.size + realsize + 1],
          ret |-> realsize]

\* curl.cc lines 45-62: realloc to size + realsize + 1 (on failure the
\* pointer is now NULL, size is kept and 0 is returned), append the chunk,
\* add realsize to size, terminate with 0
WriteMemoryCallback(mem, contents, alloc_ok) ==
  LET realsize == Len(contents) IN
  IF ~alloc_ok
    THEN [mem |-> [memory |-> NullPtr, size |-> mem.size], ret |-> 0]
    ELSE [mem |-> [memory |-> Ptr(SubSeq(Deref(mem.memory), 1, mem.size) \o contents \o <<0>>),
                   size |-> mem.size + realsize],
          ret |-> realsize]

\* curl_easy_perform (curl.cc line 114): hands the chunks received to the
\* write callback in order, the i-th allocation of the call failing when
\* fail_at = i; a callback that returns less than it was given aborts the
\* transfer with CURLE_WRITE_ERROR, otherwise the result is the transfer's
RECURSIVE curl_easy_perform(_, _, _, _, _)
curl_easy_perform(mem, chunks, res, alloc_no, fail_at) ==
  IF chunks = <<>> THEN [mem |-> mem, rcode |-> res]
  ELSE LET w == WriteMemoryCallback(mem, Head(chunks), alloc_no # fail_at) IN
       IF w.ret # Len(Head(chunks))
         THEN [mem |-> w.mem, rcode |-> "CURLE_WRITE_ERROR"]
         ELSE curl_easy_perform(w.mem, Tail(chunks), res, alloc_no + 1, fail_at)

\* curl.cc lines 76-87: the struct once calloc has succeeded
FetchInit == [memory |-> Ptr(Zeros(SizeofCharPtr)), size |-> 0]

\* curl.cc lines 71-118: calloc (the first allocation); when it fails return
\* CURLE_FAILED_INIT with fetch->size untouched; otherwise size = 0 and the
\* transfer runs
curl_fetch_url(fetch, chunks, res, fail_at) ==
  IF fail_at = 1
    THEN [mem |-> [memory |-> NullPtr, size |-> fetch.size], rcode |-> "CURLE_FAILED_INIT"]
    ELSE curl_easy_perform(FetchInit, chunks, res, 2, fail_at)

\* curl.cc lines 120-147: both set headers and call curl_fetch_url
get_json(memoryStruct, chunks, res, fail_at) ==
  curl_fetch_url(memoryStruct, chunks, res, fail_at)
post_json(memoryStruct, chunks, res, fail_at) ==
  curl_fetch_url(memoryStruct, chunks, res, fail_at)

\* `struct MemoryStruct memoryStruct;` (client.cc lines 17, 47): size holds
\* whatever was on the stack; memory is assigned at curl.cc line 76 before
\* anything reads it
Uninitialized(garbage) == [memory |-> NullPtr, size |-> garbage]

\* An error message: the prefix, then the server's text or, when fallback,
\* " No error message from server"
Message(prefix, text, fallback) == [prefix |-> prefix, text |-> text, fallback |-> fallback]
NoMessage == Message("", <<>>, FALSE)

\* client.cc lines 24-27 and 55-58: the Status built on the error path.
\* std::string + (char*)NULL is undefined: the process crashes reading the
\* null pointer, or the build gets away with an empty message
RestError(prefix, mem, json) ==
  IF mem.size > 0
    THEN IF mem.memory = NullPtr
           THEN {[status |-> Crashed, msg |-> NoMessage, json |-> json],
                 [status |-> ErrRest, msg |-> Message(prefix, <<>>, FALSE), json |-> json]}
           ELSE {[status |-> ErrRest, json |-> json,
                  msg |-> Message(prefix, CString(Deref(mem.memory)), FALSE)]}
    ELSE {[status |-> ErrRest, msg |-> Message(prefix, <<>>, TRUE), json |-> json]}

\* client.cc lines 22 and 52
RestFailed(res, httpCode) == res # "CURLE_OK" \/ httpCode >= 400

\* client.cc line 32: memcpy(*jsonReturned, memoryStruct.memory, memoryStruct.size)
CopyBody(mem) == SubSeq(Deref(mem.memory), 1, mem.size)

\* client.cc lines 9-36. The malloc of line 31 is the last allocation of the
\* call; when it fails, memcpy writes through a null pointer unless there is
\* nothing to copy
get_array_schema_json_from_rest(in) ==
  LET f == get_json(Uninitialized(in.garbage), in.chunks, in.res, in.fail_at)
      malloc_ok == in.fail_at # Len(in.chunks) + 2
  IN IF RestFailed(f.rcode, in.httpCode)
       THEN RestError("rest array get() failed: ", f.mem, JsonUnset)
       ELSE IF malloc_ok
              THEN {[status |-> Ok, msg |-> NoMessage, json |-> JsonSet(Ptr(CopyBody(f.mem)))]}
              ELSE IF f.mem.size > 0
                     THEN {[status |-> Crashed, msg |-> NoMessage, json |-> JsonSet(NullPtr)]}
                     ELSE {[status |-> Ok, msg |-> NoMessage, json |-> JsonSet(NullPtr)]}

\* client.cc lines 38-63
post_array_schema_json_to_rest(in) ==
  LET f == post_json(Uninitialized(in.garbage), in.chunks, in.res, in.fail_at)
  IN IF RestFailed(f.rcode, in.httpCode)
       THEN RestError("rest array post() failed: ", f.mem, JsonUnset)
       ELSE {[status |-> Ok, msg |-> NoMessage, json |-> JsonUnset]}

Apply_get_array_schema_json_from_rest ==
  /\ fn_in.fn = "get_array_schema_json_from_rest"
  /\ fn_out = RestPending
  /\ fn_out' \in get_array_schema_json_from_rest(fn_in)
  /\ UNCHANGED <<type_, status_, callback_, schema_set, subarray_,
                 reader_incomplete, pc, st, op, pre, ret, calls, cancel_mid,
                 domain_type, attrs_, layout_, buffers_, reinit_due,
                 w_content, w_stored, cells_, caps_, reader_, fn_in,
                 libhdfs_, dl_, instances_, hdfs_, hfile_>>

Apply_post_array_schema_json_to_rest ==
  /\ fn_in.fn = "post_array_schema_json_to_rest"
  /\ fn_out = RestPending
  /\ fn_out' \in post_array_schema_json_to_rest(fn_in)
  /\ UNCHANGED <<type_, status_, callback_, schema_set, subarray_,
                 reader_incomplete, pc, st, op, pre, ret, calls, cancel_mid,
                 domain_type, attrs_, layout_, buffers_, reinit_due,
                 w_content, w_stored, cells_, caps_, reader_, fn_in,
                 libhdfs_, dl_, instances_, hdfs_, hfile_>>

\* One invocation of the write callback by libcurl during a transfer: the
\* next chunk received is handed over, and the realloc succeeds or not.
\* libcurl makes no further invocation once one has returned less than it
\* was given.
Apply_WriteMemoryCallback ==
  /\ fn_in.fn = "WriteMemoryCallback"
  /\ fn_in.chunks # <<>>
  /\ ~fn_out.aborted
  /\ \E alloc_ok \in BOOLEAN :
       LET contents == Head(fn_in.chunks)
           w == WriteMemoryCallback(fn_out.mem, contents, alloc_ok)
       IN fn_out' = [mem |-> w.mem,
                     delivered |-> Append(fn_out.delivered, contents),
                     rets |-> Append(fn_out.rets, w.ret),
                     before |-> fn_out.mem.size,
                     aborted |-> w.ret # Len(contents)]
  /\ fn_in' = [fn_in EXCEPT !.chunks = Tail(fn_in.chunks)]
  /\ UNCHANGED <<type_, status_, callback_, schema_set, subarray_,
                 reader_incomplete, pc, st, op, pre, ret, calls, cancel_mid,
                 domain_type, attrs_, layout_, buffers_, reinit_due,
                 w_content, w_stored, cells_, caps_, reader_, libhdfs_, dl_,
                 instances_, hdfs_, hfile_>>

\* A transfer about to start: the chunks that will arrive, and the struct as
\* curl_fetch_url has set it up
InitCallback ==
  /\ QueryIdle
  /\ fn_in \in {[fn |-> "WriteMemoryCallback", chunks |-> c] : c \in SeqsUpTo(Chunks, MaxChunks)}
  /\ fn_out = [mem |-> FetchInit, delivered |-> <<>>, rets |-> <<>>, before |-> 0,
               aborted |-> FALSE]
  /\ HdfsUnused

SpecCallback == InitCallback /\ [][Apply_WriteMemoryCallback]_vars

\* Every transfer within the bounds: the chunks received, the result of the
\* transfer, the response code, which allocation of the call fails (0: none)
\* and the value an uninitialized size reads as
RestInputs ==
  {[fn |-> f, chunks |-> c, res |-> r, httpCode |-> h, fail_at |-> a, garbage |-> g] :
      f \in {"get_array_schema_json_from_rest", "post_array_schema_json_to_rest"},
      c \in SeqsUpTo(Chunks, MaxChunks), r \in TransferCodes, h \in HttpCodes,
      a \in 0..(MaxChunks + 2), g \in 0..MaxGarbage}

InitRest ==
  /\ QueryIdle
  /\ fn_in \in RestInputs
  /\ fn_out = RestPending
  /\ HdfsUnused

NextRest ==
  \/ Apply_get_array_schema_json_from_rest
  \/ Apply_post_array_schema_json_to_rest

SpecRest == InitRest /\ [][NextRest]_vars

\* ------------------------------------------------------------------ LibHDFS
FuncIndex(name) == CHOOSE i \in DOMAIN HdfsFunctions : HdfsFunctions[i] = name
\* What a call of libhdfs_-><name> goes through: an empty std::function, a
\* pointer into a library that dlclose has unloaded, or a bound function
PtrState(name) ==
  IF FuncIndex(name) > libhdfs_.bound THEN "unbound"
  ELSE IF ~(libhdfs_.origin \subseteq dl_.open) THEN "dangling"
  ELSE "bound"
LibCall(name) == [fn |-> name, ptr |-> PtrState(name)]
LibCalls(names) == {LibCall(name) : name \in names}

\* The symbols dlsym may fail to find: the first and the last one bound
MissingSymbols == {1, Len(HdfsFunctions)}

\* lines 131-157, 61-84: dlopen (on failure the handle is null), then the
\* functions are bound in order up to the first symbol dlsym does not find
try_load_bind(name, lib, dl) ==
  {[lib |-> [lib EXCEPT !.status_ = ErrDlopen, !.handle_ = NullPtr], dl |-> dl]}
  \cup
  {[lib |-> [lib EXCEPT !.status_ = ErrDlsym, !.handle_ = Ptr(name),
                        !.bound = IF k - 1 > lib.bound THEN k - 1 ELSE lib.bound,
                        !.origin = IF k > 1 THEN lib.origin \cup {name} ELSE lib.origin],
     dl |-> [dl EXCEPT !.open = dl.open \cup {name}]] : k \in MissingSymbols}
  \cup
  {[lib |-> [lib EXCEPT !.status_ = Ok, !.handle_ = Ptr(name),
                        !.bound = Len(HdfsFunctions), !.origin = {name}],
     dl |-> [dl EXCEPT !.open = dl.open \cup {name}]]}

\* lines 130-178: HADOOP_HOME unset, or the library under HADOOP_HOME, or
\* failing that the library on the loader's search path
load_and_bind(lib, dl) ==
  {[lib |-> [lib EXCEPT !.status_ = ErrHadoopHome], dl |-> dl]}
  \cup
  UNION {IF first.lib.status_ = Ok THEN {first}
         ELSE try_load_bind(SearchPathLib, first.lib, first.dl) :
           first \in try_load_bind(HadoopHomeLib, lib, dl)}

\* lines 88-95: the static is initialized by the first call only
LibHDFS_load(lib, dl) ==
  IF lib.loaded THEN {[lib |-> lib, dl |-> dl]}
  ELSE {[lib |-> [o.lib EXCEPT !.loaded = TRUE, !.loads = lib.loads + 1], dl |-> o.dl] :
          o \in load_and_bind(lib, dl)}

\* dlclose is handed something that is not an open handle
InvalidClose(lib, dl) ==
  IF lib.handle_ = NullPtr THEN TRUE ELSE Deref(lib.handle_) \notin dl.open

\* lines 54-59, 102-104: dlclose(handle_). On an open handle the library is
\* unloaded; on a null or already closed handle the call is invalid
close_library(lib, dl) ==
  IF lib.handle_ = NullPtr
    THEN [dl EXCEPT !.invalid = dl.invalid \cup {"null"}]
  ELSE IF Deref(lib.handle_) \in dl.open
    THEN [dl EXCEPT !.open = dl.open \ {Deref(lib.handle_)}]
  ELSE [dl EXCEPT !.invalid = dl.invalid \cup {"closed"}]

\* lines 195-197: HDFS::HDFS
HDFS_HDFS ==
  /\ hdfs_.pc = "idle"
  /\ instances_ < MaxInstances
  /\ \E o \in LibHDFS_load(libhdfs_, dl_) :
       /\ libhdfs_' = o.lib
       /\ dl_' = o.dl
  /\ instances_' = instances_ + 1
  /\ UNCHANGED <<type_, status_, callback_, schema_set, subarray_,
                 reader_incomplete, pc, st, op, pre, ret, calls, cancel_mid,
                 domain_type, attrs_, layout_, buffers_, reinit_due,
                 w_content, w_stored, cells_, caps_, reader_, fn_in, fn_out,
                 hdfs_, hfile_>>

\* lines 199-206: HDFS::~HDFS closes the library handle of the singleton; an
\* invalid dlclose returns or takes the process down
HDFS_destructor ==
  /\ hdfs_.pc = "idle"
  /\ instances_ > 0
  /\ dl_' = close_library(libhdfs_, dl_)
  /\ instances_' = instances_ - 1
  /\ \/ UNCHANGED hdfs_
     \/ /\ InvalidClose(libhdfs_, dl_)
        /\ hdfs_' = [hdfs_ EXCEPT !.pc = "crashed"]
  /\ UNCHANGED <<type_, status_, callback_, schema_set, subarray_,
                 reader_incomplete, pc, st, op, pre, ret, calls, cancel_mid,
                 domain_type, attrs_, layout_, buffers_, reinit_due,
                 w_content, w_stored, cells_, caps_, reader_, fn_in, fn_out,
                 libhdfs_, hfile_>>

\* --------------------------------------------------------- HDFS operations
\* The call of an HDFS method, about to execute its first line
HdfsCall(fn, first, offset, length, buffer) ==
  [HdfsIdle EXCEPT !.fn = fn, !.pc = first, !.offset = offset, !.length = length,
                   !.buffer = buffer]
\* The method returns r
Return(call, r) == [call EXCEPT !.pc = "idle", !.ret = r]
Called(call, names) == [call EXCEPT !.called = call.called \cup LibCalls(names)]

\* Variant: the load status is not looked at
connect_unchecked ==
  {[st |-> r, called |-> {"hdfsNewBuilder", "hdfsBuilderSetNameNode",
                          "hdfsBuilderConnect"}] : r \in {Ok, ErrConnect}}

\* lines 215-225: HDFS::connect returns the load error, or builds a
\* connection, which libhdfs may refuse
connect ==
  IF libhdfs_.status_ # Ok
    THEN {[st |-> libhdfs_.status_, called |-> {}]}
    ELSE {[st |-> r, called |-> {"hdfsNewBuilder", "hdfsBuilderSetNameNode",
                                 "hdfsBuilderConnect"}] : r \in {Ok, ErrConnect}}

\* lines 273-296 and 298-322: HDFS::is_dir (kind 'D') and HDFS::is_file
\* (kind 'F'): false when connect fails, when the path does not exist or has
\* no info, or is of another kind
is_kind(kind) ==
  UNION {IF c.st # Ok THEN {[ret |-> FALSE, called |-> c.called]}
         ELSE {[ret |-> FALSE, called |-> c.called \cup {"hdfsExists"}],
               [ret |-> FALSE, called |-> c.called \cup {"hdfsExists", "hdfsGetPathInfo"}]}
              \cup {[ret |-> k = kind,
                     called |-> c.called \cup {"hdfsExists", "hdfsGetPathInfo",
                                               "hdfsFreeFileInfo"}] : k \in {"D", "F"}} :
           c \in connect}
is_dir == is_kind("D")
is_file == is_kind("F")

\* The first line of a method: RETURN_NOT_OK(connect(&fs))
Connect(fn, at, next) ==
  /\ hdfs_.fn = fn
  /\ hdfs_.pc = at
  /\ \E c \in connect :
       hdfs_' = IF c.st # Ok THEN Return(Called(hdfs_, c.called), c.st)
                ELSE [Called(hdfs_, c.called) EXCEPT !.pc = next]

\* hdfsOpenFile gives a handle or null; with a handle the method goes on to
\* `next` with its locals set up
OpenFile(fn, at, next, SetUp(_)) ==
  /\ hdfs_.fn = fn
  /\ hdfs_.pc = at
  /\ \E opened \in BOOLEAN :
       IF opened
         THEN /\ hdfs_' = [SetUp(Called(hdfs_, {"hdfsOpenFile"})) EXCEPT !.pc = next]
              /\ hfile_' = [hfile_ EXCEPT !.handles = hfile_.handles + 1, !.pos = 0]
         ELSE /\ hdfs_' = Return(Called(hdfs_, {"hdfsOpenFile"}), ErrIO)
              /\ UNCHANGED hfile_

\* hdfsCloseFile releases the handle; a non-zero result is an IOError
CloseFile(fn, at) ==
  /\ hdfs_.fn = fn
  /\ hdfs_.pc = at
  /\ hfile_' = [hfile_ EXCEPT !.handles = hfile_.handles - 1]
  /\ \E r \in {0, -1} :
       hdfs_' = Return(Called(hdfs_, {"hdfsCloseFile"}), IF r # 0 THEN ErrIO ELSE Ok)

\* -------------------------------------------------------- HDFS::create_file
\* line 327
HDFS_create_file_327 ==
  /\ Connect("create_file", "327", "331")
  /\ UNCHANGED <<type_, status_, callback_, schema_set, subarray_,
                 reader_incomplete, pc, st, op, pre, ret, calls, cancel_mid,
                 domain_type, attrs_, layout_, buffers_, reinit_due,
                 w_content, w_stored, cells_, caps_, reader_, fn_in, fn_out,
                 libhdfs_, dl_, instances_, hfile_>>

\* lines 330-336
HDFS_create_file_331 ==
  /\ OpenFile("create_file", "331", "338", LAMBDA call : call)
  /\ UNCHANGED <<type_, status_, callback_, schema_set, subarray_,
                 reader_incomplete, pc, st, op, pre, ret, calls, cancel_mid,
                 domain_type, attrs_, layout_, buffers_, reinit_due,
                 w_content, w_stored, cells_, caps_, reader_, fn_in, fn_out,
                 libhdfs_, dl_, instances_>>

\* lines 338-343
HDFS_create_file_338 ==
  /\ CloseFile("create_file", "338")
  /\ UNCHANGED <<type_, status_, callback_, schema_set, subarray_,
                 reader_incomplete, pc, st, op, pre, ret, calls, cancel_mid,
                 domain_type, attrs_, layout_, buffers_, reinit_due,
                 w_content, w_stored, cells_, caps_, reader_, fn_in, fn_out,
                 libhdfs_, dl_, instances_>>

\* ----------------------------------------------------- HDFS::read_from_file
\* line 362
HDFS_read_from_file_362 ==
  /\ Connect("read_from_file", "362", "365")
  /\ UNCHANGED <<type_, status_, callback_, schema_set, subarray_,
                 reader_incomplete, pc, st, op, pre, ret, calls, cancel_mid,
                 domain_type, attrs_, layout_, buffers_, reinit_due,
                 w_content, w_stored, cells_, caps_, reader_, fn_in, fn_out,
                 libhdfs_, dl_, instances_, hfile_>>

\* lines 364-371
HDFS_read_from_file_365 ==
  /\ OpenFile("read_from_file", "365", "372", LAMBDA call : call)
  /\ UNCHANGED <<type_, status_, callback_, schema_set, subarray_,
                 reader_incomplete, pc, st, op, pre, ret, calls, cancel_mid,
                 domain_type, attrs_, layout_, buffers_, reinit_due,
                 w_content, w_stored, cells_, caps_, reader_, fn_in, fn_out,
                 libhdfs_, dl_, instances_>>

\* lines 372-379: hdfsSeek; on failure return, else set up the loop
HDFS_read_from_file_372 ==
  /\ hdfs_.fn = "read_from_file"
  /\ hdfs_.pc = "372"
  /\ \E r \in {0, -1} :
       IF r < 0
         THEN /\ hdfs_' = Return(Called(hdfs_, {"hdfsSeek"}), ErrIO)
              /\ UNCHANGED hfile_
         ELSE /\ hdfs_' = [Called(hdfs_, {"hdfsSeek"}) EXCEPT
                             !.pc = "381", !.bytes_to_read = hdfs_.length, !.buffptr = 0]
              /\ hfile_' = [hfile_ EXCEPT !.pos = hdfs_.offset]
  /\ UNCHANGED <<type_, status_, callback_, schema_set, subarray_,
                 reader_incomplete, pc, st, op, pre, ret, calls, cancel_mid,
                 domain_type, attrs_, layout_, buffers_, reinit_due,
                 w_content, w_stored, cells_, caps_, reader_, fn_in, fn_out,
                 libhdfs_, dl_, instances_>>

\* line 381: tSize nbytes = (bytes_to_read <= INT_MAX) ? bytes_to_read : INT_MAX
read_request(bytes_to_read) == IF bytes_to_read <= IntMax THEN bytes_to_read ELSE IntMax

\* What hdfsRead may return for a request of nbytes at the read position of
\* a file: 0 when nothing is asked for or the file has ended, else at least
\* one and at most the bytes asked for and left in the file; -1 as well
\* when reading the file can fail
hdfsRead(file, nbytes) ==
  LET avail == Len(file.content) - file.pos IN
  (IF file.faulty THEN {-1} ELSE {})
  \cup (IF nbytes = 0 \/ avail <= 0 THEN {0}
        ELSE 1..(IF nbytes < avail THEN nbytes ELSE avail))

\* The buffer once n bytes of the file, from pos on, are stored at buffptr
Stored(buffer, buffptr, content, pos, n) ==
  [i \in DOMAIN buffer |->
     IF i > buffptr /\ i <= buffptr + n THEN content[pos + (i - buffptr)] ELSE buffer[i]]

\* Variant: every read is stored at the start of the buffer
HDFS_read_from_file_381_keeps_buffptr ==
  /\ hdfs_.fn = "read_from_file"
  /\ hdfs_.pc = "381"
  /\ LET nbytes == read_request(hdfs_.bytes_to_read) IN
     \E bytes_read \in hdfsRead(hfile_, nbytes) :
       LET req == [made |-> TRUE, nbytes |-> nbytes, at |-> hdfs_.buffptr,
                   remaining |-> hdfs_.bytes_to_read, got |-> bytes_read]
       IN IF bytes_read < 0
            THEN /\ hdfs_' = Return([Called(hdfs_, {"hdfsRead"}) EXCEPT !.req = req], ErrIO)
                 /\ UNCHANGED hfile_
            ELSE /\ hdfs_' = [Called(hdfs_, {"hdfsRead"}) EXCEPT
                                !.req = req,
                                !.buffer = Stored(hdfs_.buffer, 0,
                                                  hfile_.content, hfile_.pos, bytes_read),
                                !.bytes_to_read = hdfs_.bytes_to_read - bytes_read,
                                !.pc = IF hdfs_.bytes_to_read - bytes_read > 0
                                         THEN "381" ELSE "395"]
                 /\ hfile_' = [hfile_ EXCEPT !.pos = hfile_.pos + bytes_read]
  /\ UNCHANGED <<type_, status_, callback_, schema_set, subarray_,
                 reader_incomplete, pc, st, op, pre, ret, calls, cancel_mid,
                 domain_type, attrs_, layout_, buffers_, reinit_due,
                 w_content, w_stored, cells_, caps_, reader_, fn_in, fn_out,
                 libhdfs_, dl_, instances_>>

\* lines 380-391: one iteration of the do-while loop
HDFS_read_from_file_381 ==
  /\ hdfs_.fn = "read_from_file"
  /\ hdfs_.pc = "381"
  /\ LET nbytes == read_request(hdfs_.bytes_to_read) IN
     \E bytes_read \in hdfsRead(hfile_, nbytes) :
       LET req == [made |-> TRUE, nbytes |-> nbytes, at |-> hdfs_.buffptr,
                   remaining |-> hdfs_.bytes_to_read, got |-> bytes_read]
       IN IF bytes_read < 0
            THEN /\ hdfs_' = Return([Called(hdfs_, {"hdfsRead"}) EXCEPT !.req = req], ErrIO)
                 /\ UNCHANGED hfile_
            ELSE /\ hdfs_' = [Called(hdfs_, {"hdfsRead"}) EXCEPT
                                !.req = req,
                                !.buffer = Stored(hdfs_.buffer, hdfs_.buffptr,
                                                  hfile_.content, hfile_.pos, bytes_read),
                                !.bytes_to_read = hdfs_.bytes_to_read - bytes_read,
                                !.buffptr = hdfs_.buffptr + bytes_read,
                                !.pc = IF hdfs_.bytes_to_read - bytes_read > 0
                                         THEN "381" ELSE "395"]
                 /\ hfile_' = [hfile_ EXCEPT !.pos = hfile_.pos + bytes_read]
  /\ UNCHANGED <<type_, status_, callback_, schema_set, subarray_,
                 reader_incomplete, pc, st, op, pre, ret, calls, cancel_mid,
                 domain_type, attrs_, layout_, buffers_, reinit_due,
                 w_content, w_stored, cells_, caps_, reader_, fn_in, fn_out,
                 libhdfs_, dl_, instances_>>

\* lines 394-401
HDFS_read_from_file_395 ==
  /\ CloseFile("read_from_file", "395")
  /\ UNCHANGED <<type_, status_, callback_, schema_set, subarray_,
                 reader_incomplete, pc, st, op, pre, ret, calls, cancel_mid,
                 domain_type, attrs_, layout_, buffers_, reinit_due,
                 w_content, w_stored, cells_, caps_, reader_, fn_in, fn_out,
                 libhdfs_, dl_, instances_>>

\* ------------------------------------------------------ HDFS::write_to_file
\* line 408
HDFS_write_to_file_408 ==
  /\ Connect("write_to_file", "408", "409")
  /\ UNCHANGED <<type_, status_, callback_, schema_set, subarray_,
                 reader_incomplete, pc, st, op, pre, ret, calls, cancel_mid,
                 domain_type, attrs_, layout_, buffers_, reinit_due,
                 w_content, w_stored, cells_, caps_, reader_, fn_in, fn_out,
                 libhdfs_, dl_, instances_, hfile_>>

\* line 409: int flags = is_file(uri) ? O_WRONLY | O_APPEND : O_WRONLY
HDFS_write_to_file_409 ==
  /\ hdfs_.fn = "write_to_file"
  /\ hdfs_.pc = "409"
  /\ \E f \in is_file :
       hdfs_' = [Called(hdfs_, f.called) EXCEPT
                   !.pc = "410",
                   !.flags = IF f.ret THEN "O_WRONLY | O_APPEND" ELSE "O_WRONLY"]
  /\ UNCHANGED <<type_, status_, callback_, schema_set, subarray_,
                 reader_incomplete, pc, st, op, pre, ret, calls, cancel_mid,
                 domain_type, attrs_, layout_, buffers_, reinit_due,
                 w_content, w_stored, cells_, caps_, reader_, fn_in, fn_out,
                 libhdfs_, dl_, instances_, hfile_>>

\* lines 410-423: open the file; nrRemaining = (off_t)length
HDFS_write_to_file_410 ==
  /\ OpenFile("write_to_file", "410", "423",
              LAMBDA call : [call EXCEPT !.nrRemaining = call.length])
  /\ UNCHANGED <<type_, status_, callback_, schema_set, subarray_,
                 reader_incomplete, pc, st, op, pre, ret, calls, cancel_mid,
                 domain_type, attrs_, layout_, buffers_, reinit_due,
                 w_content, w_stored, cells_, caps_, reader_, fn_in, fn_out,
                 libhdfs_, dl_, instances_>>

\* line 428: hdfsWrite(fs, writeFile, buffer, curSize): every batch is taken
\* from the start of the buffer
write_batch(buffer, length, nrRemaining, curSize) == SubSeq(buffer, 1, curSize)

\* lines 423-434: one pass of the for loop: leave it when nothing remains,
\* else write a batch of at most max_write_bytes, of which hdfsWrite takes
\* -1..curSize bytes, and go on only when it took them all
HDFS_write_to_file_423 ==
  /\ hdfs_.fn = "write_to_file"
  /\ hdfs_.pc = "423"
  /\ IF hdfs_.nrRemaining <= 0
       THEN /\ hdfs_' = [hdfs_ EXCEPT !.pc = "436"]
            /\ UNCHANGED hfile_
       ELSE LET curSize == IF MaxWriteBytes < hdfs_.nrRemaining THEN MaxWriteBytes
                           ELSE hdfs_.nrRemaining
                batch == write_batch(hdfs_.buffer, hdfs_.length, hdfs_.nrRemaining, curSize)
            IN \E written \in -1..curSize :
                 LET req == [made |-> TRUE, nbytes |-> curSize, at |-> 0,
                             remaining |-> hdfs_.nrRemaining, got |-> written]
                 IN /\ hfile_' = [hfile_ EXCEPT !.appended =
                                    hfile_.appended \o SubSeq(batch, 1, written)]
                    /\ hdfs_' =
                         IF written # curSize
                           THEN Return([Called(hdfs_, {"hdfsWrite"}) EXCEPT !.req = req],
                                       ErrIO)
                           ELSE [Called(hdfs_, {"hdfsWrite"}) EXCEPT
                                   !.req = req,
                                   !.nrRemaining = hdfs_.nrRemaining - MaxWriteBytes]
  /\ UNCHANGED <<type_, status_, callback_, schema_set, subarray_,
                 reader_incomplete, pc, st, op, pre, ret, calls, cancel_mid,
                 domain_type, attrs_, layout_, buffers_, reinit_due,
                 w_content, w_stored, cells_, caps_, reader_, fn_in, fn_out,
                 libhdfs_, dl_, instances_>>

\* lines 435-441
HDFS_write_to_file_436 ==
  /\ CloseFile("write_to_file", "436")
  /\ UNCHANGED <<type_, status_, callback_, schema_set, subarray_,
                 reader_incomplete, pc, st, op, pre, ret, calls, cancel_mid,
                 domain_type, attrs_, layout_, buffers_, reinit_due,
                 w_content, w_stored, cells_, caps_, reader_, fn_in, fn_out,
                 libhdfs_, dl_, instances_>>

\* ------------------------------------------ HDFS: the methods of one step
\* lines 273-296
HDFS_is_dir ==
  /\ hdfs_.fn = "is_dir"
  /\ hdfs_.pc = "276"
  /\ \E d \in is_dir : hdfs_' = Return(Called(hdfs_, d.called), Bool(d.ret))
  /\ UNCHANGED <<type_, status_, callback_, schema_set, subarray_,
                 reader_incomplete, pc, st, op, pre, ret, calls, cancel_mid,
                 domain_type, attrs_, layout_, buffers_, reinit_due,
                 w_content, w_stored, cells_, caps_, reader_, fn_in, fn_out,
                 libhdfs_, dl_, instances_, hfile_>>

\* lines 298-322
HDFS_is_file ==
  /\ hdfs_.fn = "is_file"
  /\ hdfs_.pc = "301"
  /\ \E f \in is_file : hdfs_' = Return(Called(hdfs_, f.called), Bool(f.ret))
  /\ UNCHANGED <<type_, status_, callback_, schema_set, subarray_,
                 reader_incomplete, pc, st, op, pre, ret, calls, cancel_mid,
                 domain_type, attrs_, layout_, buffers_, reinit_due,
                 w_content, w_stored, cells_, caps_, reader_, fn_in, fn_out,
                 libhdfs_, dl_, instances_, hfile_>>

\* lines 227-242: connect, refuse an existing directory, hdfsCreateDirectory
HDFS_create_dir ==
  /\ hdfs_.fn = "create_dir"
  /\ hdfs_.pc = "230"
  /\ \E c \in connect :
       IF c.st # Ok THEN hdfs_' = Return(Called(hdfs_, c.called), c.st)
       ELSE \E d \in is_dir :
              IF d.ret
                THEN hdfs_' = Return(Called(hdfs_, c.called \cup d.called), ErrIO)
                ELSE \E r \in {Ok, ErrIO} :
                       hdfs_' = Return(Called(hdfs_, c.called \cup d.called
                                                     \cup {"hdfsCreateDirectory"}), r)
  /\ UNCHANGED <<type_, status_, callback_, schema_set, subarray_,
                 reader_incomplete, pc, st, op, pre, ret, calls, cancel_mid,
                 domain_type, attrs_, layout_, buffers_, reinit_due,
                 w_content, w_stored, cells_, caps_, reader_, fn_in, fn_out,
                 libhdfs_, dl_, instances_, hfile_>>

\* The methods that connect and then make one request: the first line of
\* each, and the libhdfs functions called when the request fails / succeeds
RequestMethods == {"delete_dir", "move_dir", "delete_file", "ls", "file_size"}
FirstLine(fn) ==
  CASE fn = "delete_dir" -> "248"
    [] fn = "move_dir" -> "261"
    [] fn = "delete_file" -> "349"
    [] fn = "ls" -> "447"
    [] fn = "file_size" -> "472"
Request(fn) ==
  CASE fn = "delete_dir" -> [fails |-> {"hdfsDelete"}, succeeds |-> {"hdfsDelete"}]
    [] fn = "move_dir" -> [fails |-> {"hdfsRename"}, succeeds |-> {"hdfsRename"}]
    [] fn = "delete_file" -> [fails |-> {"hdfsDelete"}, succeeds |-> {"hdfsDelete"}]
    [] fn = "ls" -> [fails |-> {"hdfsListDirectory"},
                     succeeds |-> {"hdfsListDirectory", "hdfsFreeFileInfo"}]
    [] fn = "file_size" -> [fails |-> {"hdfsGetPathInfo"},
                            succeeds |-> {"hdfsGetPathInfo", "hdfsFreeFileInfo"}]

\* lines 245-256, 258-271, 346-356, 444-467, 469-488
HDFS_request ==
  /\ hdfs_.fn \in RequestMethods
  /\ hdfs_.pc = FirstLine(hdfs_.fn)
  /\ \E c \in connect :
       IF c.st # Ok THEN hdfs_' = Return(Called(hdfs_, c.called), c.st)
       ELSE \E ok \in BOOLEAN :
              hdfs_' = IF ok
                         THEN Return(Called(hdfs_, c.called \cup Request(hdfs_.fn).succeeds), Ok)
                         ELSE Return(Called(hdfs_, c.called \cup Request(hdfs_.fn).fails), ErrIO)
  /\ UNCHANGED <<type_, status_, callback_, schema_set, subarray_,
                 reader_incomplete, pc, st, op, pre, ret, calls, cancel_mid,
                 domain_type, attrs_, layout_, buffers_, reinit_due,
                 w_content, w_stored, cells_, caps_, reader_, fn_in, fn_out,
                 libhdfs_, dl_, instances_, hfile_>>

\* The library was unloaded by dlclose and the method in flight calls into it
HDFS_crash ==
  /\ hdfs_.pc \notin {"idle", "crashed"}
  /\ libhdfs_.status_ = Ok
  /\ ~(libhdfs_.origin \subseteq dl_.open)
  /\ hdfs_' = [hdfs_ EXCEPT !.pc = "crashed"]
  /\ UNCHANGED <<type_, status_, callback_, schema_set, subarray_,
                 reader_incomplete, pc, st, op, pre, ret, calls, cancel_mid,
                 domain_type, attrs_, layout_, buffers_, reinit_due,
                 w_content, w_stored, cells_, caps_, reader_, fn_in, fn_out,
                 libhdfs_, dl_, instances_, hfile_>>

\* A method is called on one of the HDFS objects alive
HDFS_call(calls_within) ==
  /\ hdfs_.pc = "idle"
  /\ instances_ > 0
  /\ hdfs_' \in calls_within
  /\ hfile_' = [hfile_ EXCEPT !.pos = 0, !.handles = 0, !.appended = <<>>]
  /\ UNCHANGED <<type_, status_, callback_, schema_set, subarray_,
                 reader_incomplete, pc, st, op, pre, ret, calls, cancel_mid,
                 domain_type, attrs_, layout_, buffers_, reinit_due,
                 w_content, w_stored, cells_, caps_, reader_, fn_in, fn_out,
                 libhdfs_, dl_, instances_>>

\* ---------------------------------------------------------- specs: HDFS
\* The calls within the bounds; the buffer of a read has room for `length`
\* bytes, that of a write holds them
ReadCalls(max_offset, max_length) ==
  {HdfsCall("read_from_file", "362", o, n, [i \in 1..n |-> Unwritten]) :
     o \in 0..max_offset, n \in 0..max_length}
WriteCalls(max_length) ==
  {HdfsCall("write_to_file", "408", 0, Len(b), b) : b \in SeqsUpTo(Bytes, max_length)}
CreateCalls == {HdfsCall("create_file", "327", 0, 0, <<>>)}
OtherCalls ==
  {HdfsCall("is_dir", "276", 0, 0, <<>>), HdfsCall("is_file", "301", 0, 0, <<>>),
   HdfsCall("create_dir", "230", 0, 0, <<>>)}
  \cup {HdfsCall(fn, FirstLine(fn), 0, 0, <<>>) : fn \in RequestMethods}
HdfsFiles(max_length) ==
  {HdfsFile(c, f) : c \in SeqsUpTo(Bytes, max_length), f \in BOOLEAN}

\* One HDFS object exists, so the library was loaded (or failed to load)
\* once, and one of its file methods has been called
InitHdfsFile ==
  /\ QueryIdle
  /\ fn_in = NoInput
  /\ fn_out = "none"
  /\ \E o \in LibHDFS_load(LibFresh, DlFresh) :
       /\ libhdfs_ = o.lib
       /\ dl_ = o.dl
  /\ instances_ = 1
  /\ hdfs_ \in ReadCalls(MaxFileLen, MaxLength) \cup WriteCalls(MaxLength) \cup CreateCalls
  /\ hfile_ \in HdfsFiles(MaxFileLen)

NextHdfsFile ==
  \/ HDFS_create_file_327
  \/ HDFS_create_file_331
  \/ HDFS_create_file_338
  \/ HDFS_read_from_file_362
  \/ HDFS_read_from_file_365
  \/ HDFS_read_from_file_372
  \/ HDFS_read_from_file_381
  \/ HDFS_read_from_file_395
  \/ HDFS_write_to_file_408
  \/ HDFS_write_to_file_409
  \/ HDFS_write_to_file_410
  \/ HDFS_write_to_file_423
  \/ HDFS_write_to_file_436

SpecHdfsFile == InitHdfsFile /\ [][NextHdfsFile]_vars

\* The method keeps executing until it returns
SpecHdfsFileLive == SpecHdfsFile /\ WF_vars(NextHdfsFile)

\* The life of the library: HDFS objects are created and destroyed and
\* their methods called, one at a time
LibCallsWithin ==
  ReadCalls(0, LibMaxLength) \cup WriteCalls(LibMaxLength) \cup CreateCalls \cup OtherCalls

InitHdfsLib ==
  /\ QueryIdle
  /\ fn_in = NoInput
  /\ fn_out = "none"
  /\ libhdfs_ = LibFresh
  /\ dl_ = DlFresh
  /\ instances_ = 0
  /\ hdfs_ = HdfsIdle
  /\ hfile_ \in HdfsFiles(LibMaxLength)

NextHdfsLib ==
  \/ HDFS_HDFS
  \/ HDFS_destructor
  \/ HDFS_call(LibCallsWithin)
  \/ HDFS_crash
  \/ HDFS_is_dir
  \/ HDFS_is_file
  \/ HDFS_create_dir
  \/ HDFS_request
  \/ NextHdfsFile

SpecHdfsLib == InitHdfsLib /\ [][NextHdfsLib]_vars

\* ----------------------------------------------------------------- claims
\* The calls a method made to fn
CallsTo(fn) == {i \in DOMAIN calls : calls[i].fn = fn}
\* A process() call that was let in and has returned
ProcessReturned == op = "process" /\ pc = "idle" /\ ~process_rejects(pre)

\* C1: process() called while the status is UNINITIALIZED returns the
\* "not initialized" error, makes no Reader/Writer call, does not invoke the
\* callback, and leaves the status UNINITIALIZED.
C1_ProcessUninitializedFails ==
  (op = "process" /\ pre = "UNINITIALIZED") =>
    /\ pc = "idle"
    /\ ret = ErrNotInitialized
    /\ calls = <<>>
    /\ status_ = "UNINITIALIZED"

C1_Witness ==
  /\ op = "process"
  /\ pre = "UNINITIALIZED"
  /\ ret = ErrNotInitialized
  /\ callback_

\* C2: when process() is let in and the delegate (reader_.read for READ,
\* writer_.write for WRITE) returns an error, process() returns exactly that
\* error, the status afterwards is FAILED and the callback was not invoked.
C2_DelegateFailure ==
  (ProcessReturned /\ st # Ok) =>
    /\ ret = st
    /\ status_ = "FAILED"
    /\ CallsTo("callback") = {}
    /\ calls = <<[fn |-> IF type_ = "READ" THEN "reader.read" ELSE "writer.write",
                  status |-> "INPROGRESS", cancelled |-> FALSE]>>

C2_Witness ==
  /\ ProcessReturned
  /\ st \in DelegateErrors
  /\ ret = st
  /\ callback_
  /\ pre = "INPROGRESS"

\* C3: when process() is let in and the delegate succeeds, process() returns
\* Ok and the status afterwards is COMPLETED for a WRITE query, and for a READ
\* query COMPLETED if reader_.incomplete() is false and INCOMPLETE if true.
C3_DelegateSuccess ==
  (ProcessReturned /\ st = Ok) =>
    /\ ret = Ok
    /\ type_ = "WRITE" => status_ = "COMPLETED"
    /\ (type_ = "READ" /\ ~reader_incomplete) => status_ = "COMPLETED"
    /\ (type_ = "READ" /\ reader_incomplete) => status_ = "INCOMPLETE"

C3_Witness ==
  /\ ProcessReturned
  /\ st = Ok
  /\ type_ = "READ"
  /\ reader_incomplete
  /\ status_ = "INCOMPLETE"
  /\ ret = Ok

\* C4: in every process() call that completes, a registered callback is
\* invoked exactly once before process() returns, and the status seen from
\* inside the callback is already COMPLETED.
C4_CallbackSeesCompleted ==
  (ProcessReturned /\ st = Ok /\ status_ = "COMPLETED" /\ callback_) =>
    /\ Cardinality(CallsTo("callback")) = 1
    /\ \A i \in CallsTo("callback") : calls[i].status = "COMPLETED"

\* C5: cancel() sets the status to FAILED and returns Ok from every status,
\* without any Reader, Writer or callback invocation.
C5_CancelForcesFailed ==
  (op = "cancel") =>
    /\ status_ = "FAILED"
    /\ ret = Ok
    /\ calls = <<>>

C5_Witness ==
  /\ op = "cancel"
  /\ pre = "COMPLETED"
  /\ status_ = "FAILED"
  /\ callback_

\* C6: FAILED is absorbing: once the status is FAILED it remains FAILED
\* after any of init(), process(), finalize(), set_subarray(), set_buffer(),
\* set_layout(), set_callback() and cancel().
C6_FailedAbsorbing == [][status_ = "FAILED" => status_' = "FAILED"]_vars

\* C7: process() on a Query whose status is FAILED returns an error and has
\* no side effects: no Reader/Writer call, no callback, status still FAILED.
C7_ProcessOnFailedFails ==
  (op = "process" /\ pre = "FAILED") =>
    /\ pc = "idle"
    /\ ret \notin {Ok, "none"}
    /\ calls = <<>>
    /\ status_ = "FAILED"

\* C8 (as claimed): COMPLETED is terminal: once the status is COMPLETED, no
\* init(), process(), finalize() or set_subarray() changes it.
C8_CompletedTerminal ==
  [][(status_ = "COMPLETED" /\ op' \in {"init", "process", "finalize", "set_subarray"})
       => status_' = "COMPLETED"]_vars

\* C8 (amended): from COMPLETED, finalize(), set_buffer(), set_layout(),
\* set_callback() and a failed set_subarray() leave the status COMPLETED;
\* init() moves it to INPROGRESS without calling the delegate, a successful
\* set_subarray() to UNINITIALIZED, cancel() to FAILED, and process() runs
\* the delegate again and ends COMPLETED, INCOMPLETE or FAILED.
C8_CompletedTransitions ==
  (pre = "COMPLETED" /\ pc = "idle") =>
    /\ op \in {"finalize", "set_buffer", "set_layout", "set_callback"}
         => status_ = "COMPLETED"
    /\ op = "set_subarray"
         => status_ = IF ret = Ok THEN "UNINITIALIZED" ELSE "COMPLETED"
    /\ op = "init" => (status_ = "INPROGRESS" /\ ret = Ok /\ calls = <<>>)
    /\ op = "cancel" => status_ = "FAILED"
    /\ op = "process"
         => /\ status_ \in {"COMPLETED", "INCOMPLETE", "FAILED"}
            /\ Cardinality(CallsTo("reader.read") \cup CallsTo("writer.write")) = 1

C8_Witness ==
  /\ pre = "COMPLETED"
  /\ op = "init"
  /\ status_ = "INPROGRESS"

\* C9: when cancel() runs inside an in-flight process(), the completion
\* callback of that process() call is never invoked after the cancel().
C9_NoCallbackAfterCancel ==
  \A i \in CallsTo("callback") : ~calls[i].cancelled

\* C10: when cancel() runs inside an in-flight process(), that process()
\* returns a failure and the status once both have returned is FAILED, even
\* if the delegate succeeded.
C10_CancelMidProcessFails ==
  (op = "process" /\ pc = "idle" /\ cancel_mid) =>
    /\ ret # Ok
    /\ status_ = "FAILED"

\* ------------------------------------------- claims: subarray validation
\* a <= b as a statement about numbers: NaN is in no order relation
le(a, b) == a # NaN /\ b # NaN /\ a <= b
\* Dimension i of subarray s lies in the domain, lower bound first
DimensionValid(s, i) ==
  le(DomLo, s[2 * i - 1]) /\ le(s[2 * i - 1], s[2 * i]) /\ le(s[2 * i], DomHi)
SubarrayValid(s, dim_num) ==
  s = NullSubarray \/ \A i \in 1..dim_num : DimensionValid(s, i)
ViolatedDimensions(s, dim_num) == {i \in 1..dim_num : ~DimensionValid(s, i)}
ValidateReturned == fn_in.fn = "check_subarray_bounds" /\ fn_out # "none"

\* C14: over an integer domain check_subarray_bounds succeeds if and only if
\* the subarray is null or every dimension has dom_lo <= lo <= hi <= dom_hi.
C14_ValidationIffValid ==
  (ValidateReturned /\ fn_in.have_schema /\ fn_in.dtype \in IntegerTypes) =>
    (fn_out = Ok <=> SubarrayValid(fn_in.subarray, fn_in.dim_num))

C14_Witness ==
  /\ ValidateReturned
  /\ fn_in.have_schema
  /\ fn_in.dtype \in IntegerTypes
  /\ fn_in.subarray # NullSubarray
  /\ ViolatedDimensions(fn_in.subarray, fn_in.dim_num) = {fn_in.dim_num}
  /\ fn_in.subarray[2 * fn_in.dim_num - 1] = DomHi
  /\ fn_in.subarray[2 * fn_in.dim_num] = DomLo
  /\ fn_out = ErrLowerLargerThanUpper

\* C15: when validation fails, the error identifies the violated dimension:
\* two subarrays that violate different dimensions get different errors.
C15_ErrorIdentifiesDimension ==
  (ValidateReturned /\ fn_in.have_schema /\ fn_out # Ok) =>
    \A s2 \in SubarraysOf(fn_in.dtype, fn_in.dim_num) \ {NullSubarray} :
      ( /\ ViolatedDimensions(s2, fn_in.dim_num) # {}
        /\ ViolatedDimensions(s2, fn_in.dim_num)
             \cap ViolatedDimensions(fn_in.subarray, fn_in.dim_num) = {} )
      => check_subarray_bounds(s2, TRUE, fn_in.dtype, fn_in.dim_num) # fn_out

\* --------------------------------------------- claims: offsets validation
OffsetsReturned == fn_in.fn = "check_var_attr_offsets" /\ fn_out # "none"
OffsetsNonNull ==
  /\ fn_in.buffer_off # NullPtr
  /\ fn_in.buffer_off_size # NullPtr
  /\ fn_in.buffer_val_size # NullPtr
\* Entry i of offsets array a breaks a rule for value size v
OffsetOffends(a, i, v) == a[i] >= v \/ (i > 1 /\ a[i] <= a[i - 1])
\* The first n offsets of a are strictly ascending and all below v
OffsetsValid(a, n, v) == \A i \in 1..n : ~OffsetOffends(a, i, v)
\* The first entry among the first n that breaks a rule (there is one)
FirstOffender(a, n, v) ==
  CHOOSE i \in 1..n : OffsetOffends(a, i, v) /\ \A j \in 1..(i - 1) : ~OffsetOffends(a, j, v)

\* C16: for an offsets sequence of n >= 1 entries and non-null arguments,
\* check_var_attr_offsets succeeds if and only if the offsets are strictly
\* ascending and every offset is below the value size; [0,3,7] with size 10
\* succeeds, [0,3,3] and [0,3,10] with size 10 fail.
C16_OffsetsIffValid ==
  /\ (OffsetsReturned /\ OffsetsNonNull
        /\ Deref(fn_in.buffer_off_size) \div SizeofUint64 >= 1) =>
       (fn_out = Ok <=>
          OffsetsValid(Deref(fn_in.buffer_off),
                       Deref(fn_in.buffer_off_size) \div SizeofUint64,
                       Deref(fn_in.buffer_val_size)))
  /\ check_var_attr_offsets(Ptr(<<0, 3, 7>>), Ptr(3 * SizeofUint64), Ptr(10)) = Ok
  /\ check_var_attr_offsets(Ptr(<<0, 3, 3>>), Ptr(3 * SizeofUint64), Ptr(10)) # Ok
  /\ check_var_attr_offsets(Ptr(<<0, 3, 10>>), Ptr(3 * SizeofUint64), Ptr(10)) # Ok

C16_Witness ==
  /\ OffsetsReturned
  /\ OffsetsNonNull
  /\ Deref(fn_in.buffer_off_size) = MaxOffsets * SizeofUint64
  /\ Len(Deref(fn_in.buffer_off)) = MaxOffsets
  /\ fn_out = Ok

\* C17: a null offsets pointer, offsets-size pointer or value-size pointer
\* is an error, whatever the other arguments; otherwise num_offsets is the
\* floor of *buffer_off_size / 8: when it is 0 the call succeeds for any
\* value size and any (even empty) offsets array, and no entry beyond the
\* first num_offsets ever causes a failure.
C17_NullAndZeroOffsets ==
  OffsetsReturned =>
    /\ ~OffsetsNonNull => fn_out = ErrNullOffsets
    /\ (OffsetsNonNull /\ Deref(fn_in.buffer_off_size) < SizeofUint64) => fn_out = Ok
    /\ (OffsetsNonNull /\ fn_out # Ok) =>
         \E i \in 1..(Deref(fn_in.buffer_off_size) \div SizeofUint64) :
           OffsetOffends(Deref(fn_in.buffer_off), i, Deref(fn_in.buffer_val_size))

C17_Witness ==
  /\ OffsetsReturned
  /\ fn_in.buffer_off = Ptr(<<>>)
  /\ fn_in.buffer_off_size = Ptr(SizeofUint64 - 1)
  /\ fn_in.buffer_val_size = Ptr(0)
  /\ fn_out = Ok

\* C18: every failure of the offsets validation carries the offending offset
\* and the value buffer size: two failures that differ in the offending
\* offset or in the value size get different errors.
C18_ErrorCarriesOffsetAndSize ==
  (OffsetsReturned /\ OffsetsNonNull /\ fn_out # Ok) =>
    LET n == Deref(fn_in.buffer_off_size) \div SizeofUint64
        a == Deref(fn_in.buffer_off)
        v == Deref(fn_in.buffer_val_size)
    IN \A a2 \in [1..n -> 0..MaxOffsetValue], v2 \in 0..MaxOffsetValue :
         ( /\ ~OffsetsValid(a2, n, v2)
           /\ <<a2[FirstOffender(a2, n, v2)], v2>> # <<a[FirstOffender(a, n, v)], v>> )
         => check_var_attr_offsets(Ptr(a2), Ptr(n * SizeofUint64), Ptr(v2)) # fn_out

\* ------------------------------------------------- claims: set_subarray
\* The errors check_subarray_bounds returns
ValidationErrors == {ErrSchemaNotSet, ErrOutOfBounds, ErrLowerLargerThanUpper}

\* C11: set_subarray() with a subarray that fails validation returns the
\* error without calling the delegate's set_subarray and without changing
\* the status; when the delegate's set_subarray fails the status is
\* unchanged too; so the stored subarray is valid in every reachable state.
C11_InvalidSubarrayNeverStored ==
  /\ (op = "set_subarray" /\ ret \in ValidationErrors) =>
       (calls = <<>> /\ status_ = pre)
  /\ (op = "set_subarray" /\ ret \in DelegateErrors) => status_ = pre
  /\ SubarrayValid(subarray_, NumDims)

\* C12: a successful set_subarray() leaves the status UNINITIALIZED, and
\* from then until the delegate's init has run again no process() gets past
\* its entry check to a read or write, and no init() succeeds without
\* calling the delegate's init.
C12_ResetForcesReinit ==
  /\ (op = "set_subarray" /\ ret = Ok) => status_ = "UNINITIALIZED"
  /\ pc # "idle" => ~reinit_due
  /\ (op = "init" /\ ret = Ok) => ~reinit_due

\* C13: a set_subarray() call, successful or not, leaves the registered
\* buffers, the layout, the callback and the query type as they were.
C13_SetSubarrayFrame ==
  [][op' = "set_subarray" =>
       /\ buffers_' = buffers_
       /\ layout_' = layout_
       /\ callback_' = callback_
       /\ type_' = type_]_vars

C13_Witness ==
  /\ op = "set_subarray"
  /\ ret = Ok
  /\ pre = "COMPLETED"
  /\ subarray_ # NullSubarray
  /\ buffers_ # {}
  /\ layout_ = "GLOBAL_ORDER"
  /\ callback_

\* --------------------------------------------------------- claims: write
\* write() found a registered variable-sized attribute whose offsets break
\* the offsets invariant
WriteOffsetsInvalid ==
  /\ type_ = "WRITE"
  /\ w_content # NoContent
  /\ ~OffsetsValid(Deref(w_content.buffer_off),
                   Deref(w_content.buffer_off_size) \div SizeofUint64,
                   Deref(w_content.buffer_val_size))

C20_InitAlwaysInProgress == op = "init" => status_ = "INPROGRESS"

\* C20: init() leaves the status INPROGRESS whenever it returns Ok, which it
\* does from every status but UNINITIALIZED; when the status is
\* UNINITIALIZED and the delegate's init fails, init() returns that error
\* and the status stays UNINITIALIZED.
C20_InitInProgressUnlessDelegateFails ==
  op = "init" =>
    /\ ret = Ok => status_ = "INPROGRESS"
    /\ pre # "UNINITIALIZED" => ret = Ok
    /\ ret # Ok =>
         /\ ret \in DelegateErrors
         /\ status_ = "UNINITIALIZED"
         /\ Len(calls) = 1

C20_Witness ==
  /\ op = "init"
  /\ ret \in DelegateErrors
  /\ pre = "UNINITIALIZED"
  /\ status_ = "UNINITIALIZED"

\* C21: init() calls the delegate's init, that of the Reader for a READ
\* query and of the Writer for a WRITE query, exactly when the status is
\* UNINITIALIZED; an init() that returns Ok leaves another status, and only
\* a successful set_subarray() brings UNINITIALIZED back, so until then no
\* further init() calls the delegate.
C21_InitDelegatesOnlyUninitialized ==
  [][/\ op' = "init" =>
          IF status_ = "UNINITIALIZED"
            THEN /\ Len(calls') = 1
                 /\ calls'[1].fn = IF type_ = "READ" THEN "reader.init" ELSE "writer.init"
            ELSE calls' = <<>>
     /\ (op' = "init" /\ ret' = Ok) => status_' # "UNINITIALIZED"
     /\ (status_ # "UNINITIALIZED" /\ status_' = "UNINITIALIZED") =>
          (op' = "set_subarray" /\ ret' = Ok)]_vars

C21_Witness ==
  /\ op = "init"
  /\ pre = "INPROGRESS"
  /\ ~reinit_due
  /\ ret = Ok
  /\ calls = <<>>
  /\ status_ = "INPROGRESS"

\* ------------------------------------------------------ claims: finalize
\* C22: finalize() on an UNINITIALIZED query returns Ok, does not call
\* Writer.finalize and leaves the status UNINITIALIZED.
C22_FinalizeUninitializedNoOp ==
  (op = "finalize" /\ pre = "UNINITIALIZED") =>
    /\ ret = Ok
    /\ calls = <<>>
    /\ status_ = "UNINITIALIZED"

C22_Witness ==
  /\ op = "finalize"
  /\ pre = "UNINITIALIZED"
  /\ reinit_due
  /\ ret = Ok

\* C23: finalize() on a query that is not UNINITIALIZED calls
\* Writer.finalize; when that succeeds the status becomes COMPLETED and Ok
\* is returned, when it fails its error is returned and the status is as
\* before.
C23_FinalizeCompletes ==
  (op = "finalize" /\ pre # "UNINITIALIZED") =>
    /\ Len(calls) = 1
    /\ calls[1].fn = "writer.finalize"
    /\ ret = Ok => status_ = "COMPLETED"
    /\ ret # Ok => (ret \in DelegateErrors /\ status_ = pre)

C23_Witness ==
  /\ op = "finalize"
  /\ pre = "FAILED"
  /\ ret = Ok
  /\ status_ = "COMPLETED"

\* ----------------------------------------------------- claims: delegates
ReaderMethods ==
  {"reader.init", "reader.read", "reader.set_subarray", "reader.set_buffer",
   "reader.set_layout", "reader.no_results"}
WriterMethods ==
  {"writer.init", "writer.write", "writer.finalize", "writer.set_subarray",
   "writer.set_buffer", "writer.set_layout"}

\* C24: a READ query never calls a Writer method and a WRITE query never
\* calls a Reader method.
C24_OneDelegate ==
  \A i \in DOMAIN calls :
    /\ type_ = "READ" => calls[i].fn \notin WriterMethods
    /\ type_ = "WRITE" => calls[i].fn \notin ReaderMethods

\* ---------------------------------------------------- claims: INCOMPLETE
\* C25: only a READ query is ever INCOMPLETE; a process() call on an
\* INCOMPLETE query is let in, sets INPROGRESS, calls Reader.read (and not
\* Reader.init) and ends COMPLETED, INCOMPLETE or FAILED.
C25_IncompleteResumes ==
  /\ status_ = "INCOMPLETE" => type_ = "READ"
  /\ (op = "process" /\ pre = "INCOMPLETE") =>
       /\ pc = "171" => status_ = "INCOMPLETE"
       /\ pc \in {"175", "181", "192", "193", "195"} => status_ = "INPROGRESS"
       /\ pc \in {"181", "192", "193", "195", "198", "idle"} =>
            /\ calls[1].fn = "reader.read"
            /\ calls[1].status = "INPROGRESS"
       /\ CallsTo("reader.init") = {}
       /\ pc \in {"198", "idle"} => status_ \in {"COMPLETED", "INCOMPLETE", "FAILED"}
       /\ pc = "idle" => (ret = Ok <=> status_ # "FAILED")

C25_Witness ==
  /\ op = "process"
  /\ pre = "INCOMPLETE"
  /\ pc = "idle"
  /\ status_ = "INCOMPLETE"

\* --------------------------------------------------- claims: has_results
\* C26: has_results() is false when the status is UNINITIALIZED or the query
\* is a WRITE, without a call to the Reader; otherwise it is the negation of
\* what reader.no_results() answers; and it changes nothing of the query.
C26_HasResults ==
  [][op' = "has_results" =>
       /\ IF status_ = "UNINITIALIZED" \/ type_ = "WRITE"
            THEN calls' = <<>> /\ ret' = "false"
            ELSE /\ Len(calls') = 1
                 /\ calls'[1].fn = "reader.no_results"
                 /\ ret' = IF calls'[1].result THEN "false" ELSE "true"
       /\ UNCHANGED <<type_, status_, callback_, schema_set, subarray_,
                      reader_incomplete, layout_, buffers_, reinit_due>>]_vars

C26_Witness ==
  /\ op = "has_results"
  /\ pre = "INCOMPLETE"
  /\ status_ = "INCOMPLETE"
  /\ ret = "true"

\* ---------------------------------------------------------- claims: read
\* What one read into buffers without limit delivers
UnlimitedRead ==
  LET big == [a \in attrs_ |-> cells_.num * CellSize(a)]
      res == CHOOSE o \in Reader_read(attrs_, big, cells_.num, ReaderFresh(attrs_)) : o.st = Ok
  IN res.reader.out
\* The whole cells every registered buffer has room for
CellsPerCall == Min({caps_[a] \div CellSize(a) : a \in buffers_})
\* A process() call of a READ query has returned, and no read failed since
\* the Reader's init
ReadReturned ==
  /\ type_ = "READ"
  /\ cells_.known
  /\ op = "process"
  /\ pc = "idle"
  /\ pre # "UNINITIALIZED"
  /\ reader_.ok

\* C27: as long as no read fails, every read of a READ query delivers the
\* cells that follow those delivered before, none twice and none skipped,
\* and reports for every buffer the bytes of those cells; a process() that
\* ends INCOMPLETE has delivered a proper prefix of what a single read with
\* unlimited buffers delivers, and one that ends COMPLETED all of it.
C27_ResumableRead ==
  [][/\ (pc = "175" /\ type_ = "READ" /\ cells_.known /\ reader_'.ok) =>
          LET d == Len(reader_'.out) - Len(reader_.out) IN
            /\ d >= 0
            /\ reader_'.out = reader_.out \o SubSeq(UnlimitedRead, Len(reader_.out) + 1,
                                                     Len(reader_.out) + d)
            /\ \A a \in buffers_ : reader_'.sizes[a] = d * CellSize(a)
     /\ ReadReturned' =>
          /\ status_' \in {"INCOMPLETE", "COMPLETED"}
          /\ status_' = "INCOMPLETE" =>
               /\ Len(reader_'.out) < Len(UnlimitedRead)
               /\ reader_'.out = SubSeq(UnlimitedRead, 1, Len(reader_'.out))
          /\ status_' = "COMPLETED" => reader_'.out = UnlimitedRead]_vars

C27_Witness ==
  /\ ReadReturned
  /\ pre = "INCOMPLETE"
  /\ status_ = "COMPLETED"
  /\ cells_.num = RdMaxCells
  /\ Len(reader_.out) = RdMaxCells
  /\ CellsPerCall = 1

\* C28: after a process() call of a READ query that ends INCOMPLETE, every
\* registered buffer holds the data of the same whole number of cells, and
\* no more bytes are reported for a buffer than the size it was registered
\* with.
C28_IncompleteBuffersConsistent ==
  (type_ = "READ" /\ cells_.known /\ op = "process" /\ pc = "idle"
     /\ status_ = "INCOMPLETE") =>
    /\ \E n \in 0..cells_.num :
         \A a \in buffers_ : reader_.sizes[a] = n * CellSize(a)
    /\ \A a \in buffers_ : reader_.sizes[a] <= caps_[a]

C28_Witness ==
  /\ type_ = "READ"
  /\ cells_.known
  /\ op = "process"
  /\ pc = "idle"
  /\ status_ = "INCOMPLETE"
  /\ buffers_ = attrs_
  /\ caps_["a1"] = 2 * CellSize("a1") + 1
  /\ caps_["__coords"] = CellSize("__coords") + 1
  /\ reader_.sizes["a1"] = CellSize("a1")

\* C29: a READ query whose buffers have room for at least one cell reaches
\* COMPLETED when init() and process() keep being called, unless a call of
\* the Reader fails; with 8 matching cells and room for 4, the first read
\* delivers cells 1..4 and ends INCOMPLETE and the second delivers cells 5..8
\* and ends COMPLETED; with room for 8 one read delivers all 8 cells in
\* global order and ends COMPLETED.
C29_ReadCompletes ==
  /\ <>(status_ = "COMPLETED" \/ ~reader_.ok \/ (op = "init" /\ ret # Ok))
  /\ [][(pc = "175" /\ reader_'.ok /\ cells_.num = 8 /\ reader_.out = <<>>) =>
          /\ CellsPerCall = 4 => (reader_'.out = <<1, 2, 3, 4>> /\ reader_incomplete')
          /\ CellsPerCall = 8 =>
               (reader_'.out = <<1, 2, 3, 4, 5, 6, 7, 8>> /\ ~reader_incomplete')]_vars
  /\ [][(pc = "175" /\ reader_'.ok /\ cells_.num = 8 /\ CellsPerCall = 4
           /\ reader_.out = <<1, 2, 3, 4>>) =>
          (reader_'.out = <<1, 2, 3, 4, 5, 6, 7, 8>> /\ ~reader_incomplete')]_vars
  /\ [](ReadReturned => (status_ = IF reader_incomplete THEN "INCOMPLETE" ELSE "COMPLETED"))

C29_Witness ==
  /\ ReadReturned
  /\ cells_.num = 8
  /\ CellsPerCall = 4
  /\ pre = "INCOMPLETE"
  /\ status_ = "COMPLETED"
  /\ reader_.out = <<1, 2, 3, 4, 5, 6, 7, 8>>

\* The result get_json / post_json hand back to the client function, and the
\* response body the server sent
RestTransfer ==
  curl_fetch_url(Uninitialized(fn_in.garbage), fn_in.chunks, fn_in.res, fn_in.fail_at)
RestBody == Flatten(fn_in.chunks)
\* The bytes a returned pointer gives access to
JsonBytes(p) == IF p = NullPtr THEN <<>> ELSE Deref(p)

\* C30: get_array_schema_json_from_rest and post_array_schema_json_to_rest
\* return Status Ok exactly when the curl transfer result is CURLE_OK and
\* the HTTP response code is below 400, and Status Error otherwise; on Ok the
\* get function sets *jsonReturned to a copy of exactly the bytes of the
\* response body.
C30_RestStatus ==
  fn_out # RestPending =>
    /\ fn_out.status = IF RestTransfer.rcode = "CURLE_OK" /\ fn_in.httpCode < 400
                         THEN Ok ELSE ErrRest
    /\ (fn_in.fn = "get_array_schema_json_from_rest" /\ fn_out.status = Ok) =>
         (fn_out.json.set /\ JsonBytes(fn_out.json.ptr) = RestBody)

\* ------------------------------------------------- claims: the last group
\* The two tests of the validation loop, on dimension i of subarray s
TestOutOfBounds(s, i) == lt(s[2 * i - 1], DomLo) \/ gt(s[2 * i], DomHi)
TestUnordered(s, i) == gt(s[2 * i - 1], s[2 * i])
FailingDimensions(s, dim_num) ==
  {i \in 1..dim_num : TestOutOfBounds(s, i) \/ TestUnordered(s, i)}
FirstFailing(s, dim_num) ==
  CHOOSE i \in FailingDimensions(s, dim_num) :
    \A j \in FailingDimensions(s, dim_num) : i <= j
\* The subarrays that have the bounds of s in dimensions 1..d
AgreeUpTo(s, d, dtype, dim_num) ==
  {[k \in 1..(2 * dim_num) |-> IF k <= 2 * d THEN s[k] ELSE rest[k]] :
     rest \in [(2 * d + 1)..(2 * dim_num) -> ScalarsOf(dtype)]}

\* C31: validation stops at the first dimension, in increasing index order,
\* that fails a test: the result is decided by that dimension alone, whatever
\* the later dimensions hold; within it the bounds test (lo < dom_lo or
\* hi > dom_hi) comes before the ordering test (lo > hi), so lo above the
\* domain with hi inside the domain is an ordering error.
C31_FirstViolationDecides ==
  (ValidateReturned /\ fn_in.have_schema /\ fn_in.subarray # NullSubarray) =>
    LET s == fn_in.subarray
        n == fn_in.dim_num
    IN IF FailingDimensions(s, n) = {} THEN fn_out = Ok
       ELSE LET d == FirstFailing(s, n) IN
            /\ fn_out = IF TestOutOfBounds(s, d) THEN ErrOutOfBounds
                                                 ELSE ErrLowerLargerThanUpper
            /\ \A t \in AgreeUpTo(s, d, fn_in.dtype, n) :
                 check_subarray_bounds(t, TRUE, fn_in.dtype, n) = fn_out
            /\ (gt(s[2 * d - 1], DomHi) /\ le(DomLo, s[2 * d]) /\ le(s[2 * d], DomHi))
                 => fn_out = ErrLowerLargerThanUpper

C31_Witness ==
  /\ ValidateReturned
  /\ fn_in.have_schema
  /\ fn_in.subarray # NullSubarray
  /\ fn_in.dtype \in IntegerTypes
  /\ fn_in.dim_num >= 2
  /\ FailingDimensions(fn_in.subarray, fn_in.dim_num) # {}
  /\ FirstFailing(fn_in.subarray, fn_in.dim_num) = 1
  /\ fn_in.subarray[1] = DomHi + 1
  /\ fn_in.subarray[2] = DomHi
  /\ TestOutOfBounds(fn_in.subarray, 2)
  /\ fn_out = ErrLowerLargerThanUpper

\* C32: with calls made one at a time, the status is never INPROGRESS once
\* process() has returned: it is UNINITIALIZED exactly when the call was
\* rejected, otherwise COMPLETED, INCOMPLETE or FAILED; between calls the
\* status becomes INPROGRESS only by init().
C32_InProgressOnlyAfterInit ==
  /\ []((op = "process" /\ pc = "idle") =>
          /\ status_ \in {"UNINITIALIZED", "COMPLETED", "INCOMPLETE", "FAILED"}
          /\ status_ = "UNINITIALIZED" <=> process_rejects(pre))
  /\ [][(pc' = "idle" /\ status_' = "INPROGRESS"
           /\ ~(pc = "idle" /\ status_ = "INPROGRESS")) => op' = "init"]_vars

C32_Witness ==
  /\ op = "process"
  /\ pc = "idle"
  /\ pre = "INPROGRESS"
  /\ ret \in DelegateErrors
  /\ status_ = "FAILED"
  /\ Len(calls) = 1

\* C39: on a struct set up by curl_fetch_url, after a run of successful
\* WriteMemoryCallback invocations size is the sum of the chunk lengths,
\* memory holds the chunks one after the other followed by a 0 at index
\* size, and every invocation returned its chunk's length; an invocation
\* whose allocation fails returns 0 and leaves size as it was.
C39_CallbackAccumulates ==
  fn_out.rets # <<>> =>
    IF fn_out.aborted
      THEN /\ fn_out.rets[Len(fn_out.rets)] = 0
           /\ fn_out.mem.size = fn_out.before
           /\ fn_out.mem.size =
                Len(Flatten(SubSeq(fn_out.delivered, 1, Len(fn_out.delivered) - 1)))
      ELSE /\ fn_out.mem.size = Len(Flatten(fn_out.delivered))
           /\ Deref(fn_out.mem.memory) = Flatten(fn_out.delivered) \o <<0>>
           /\ \A i \in DOMAIN fn_out.rets : fn_out.rets[i] = Len(fn_out.delivered[i])

C39_Witness ==
  /\ Len(fn_out.rets) = 2
  /\ ~fn_out.aborted
  /\ fn_out.delivered[1] # fn_out.delivered[2]
  /\ fn_out.mem.size = 3

\* ---------------------------------------------------- claims: HDFS files
\* C33: when hdfsWrite takes every batch whole, write_to_file has appended
\* exactly the bytes of the buffer, in order, in batches of at most
\* max_write_bytes: each batch carries the bytes that follow those of the
\* batches before it.
C33_WriteAppendsBuffer ==
  hdfs_.fn = "write_to_file" =>
    /\ (hdfs_.req.made => hdfs_.req.nbytes <= MaxWriteBytes)
    /\ (hdfs_.pc = "436" \/ (hdfs_.pc = "idle" /\ hdfs_.ret = Ok)) =>
         hfile_.appended = hdfs_.buffer

\* C34: read_from_file returning Ok has stored the `length` bytes of the
\* file from `offset` on in the buffer; every request asks for
\* min(remaining, INT_MAX) bytes to be put right after the bytes already
\* read, the remaining count stays within 0..length, and a negative result
\* of hdfsRead ends the call with an IOError.
C34_ReadStoresLength ==
  hdfs_.fn = "read_from_file" =>
    /\ (hdfs_.pc = "idle" /\ hdfs_.ret = Ok) =>
         hdfs_.buffer = SubSeq(hfile_.content, hdfs_.offset + 1,
                               hdfs_.offset + hdfs_.length)
    /\ hdfs_.req.made =>
         /\ hdfs_.req.nbytes = IF hdfs_.req.remaining <= IntMax
                                 THEN hdfs_.req.remaining ELSE IntMax
         /\ hdfs_.req.at = hdfs_.length - hdfs_.req.remaining
         /\ hdfs_.req.got < 0 => (hdfs_.pc = "idle" /\ hdfs_.ret = ErrIO)
    /\ hdfs_.bytes_to_read \in 0..hdfs_.length

C34_Witness ==
  /\ hdfs_.fn = "read_from_file"
  /\ hdfs_.pc = "idle"
  /\ hdfs_.ret = Ok
  /\ hdfs_.length > IntMax
  /\ hdfs_.offset = 1
  /\ hdfs_.req.got = 1
  /\ hdfs_.buffer = <<1, 0, 1>>

\* C35: read_from_file returns, whatever hdfsRead does: short reads, a read
\* of 0 bytes because the file ends before offset + length, and a length
\* of 0 included.
C35_ReadTerminates == (hdfs_.fn = "read_from_file") ~> (hdfs_.pc = "idle")

\* C36: when read_from_file, write_to_file or create_file returns, on
\* success or with an error, every file handle it opened has been closed
\* with hdfsCloseFile.
C36_HandlesClosed ==
  (hdfs_.fn \in {"read_from_file", "write_to_file", "create_file"} /\ hdfs_.pc = "idle")
    => hfile_.handles = 0

\* -------------------------------------------------- claims: the library
\* An HDFS method has returned
HdfsReturned == hdfs_.fn # "none" /\ hdfs_.pc = "idle"

\* C37: when loading or binding libhdfs failed (HADOOP_HOME unset, library
\* not found on either attempt, or a symbol missing), every HDFS operation
\* returns that load error (is_dir and is_file return false) without calling
\* any libhdfs function; no HDFS operation ever calls an unbound libhdfs
\* function pointer.
C37_LoadErrorReturned ==
  /\ (libhdfs_.status_ # Ok /\ hdfs_.fn # "none") =>
       /\ hdfs_.called = {}
       /\ hdfs_.pc = "idle" =>
            hdfs_.ret = IF hdfs_.fn \in {"is_dir", "is_file"} THEN Bool(FALSE)
                        ELSE libhdfs_.status_
  /\ \A c \in hdfs_.called : c.ptr # "unbound"

C37_Witness ==
  /\ HdfsReturned
  /\ hdfs_.fn = "write_to_file"
  /\ libhdfs_.status_ = ErrDlsym
  /\ libhdfs_.bound > 0
  /\ hdfs_.called = {}
  /\ hdfs_.ret = ErrDlsym

\* C38: the process-wide LibHDFS singleton is loaded at most once and stays
\* usable: destroying an HDFS instance does not close the library handle
\* that the instances alive, or created later, use, and the handle is never
\* closed twice or closed when it was never opened.
C38_LibraryStaysLoaded ==
  /\ libhdfs_.loads <= 1
  /\ (libhdfs_.loaded /\ libhdfs_.status_ = Ok) => Deref(libhdfs_.handle_) \in dl_.open
  /\ dl_.invalid = {}

====
